---- MODULE Spec2Model ----
(***************************************************************************)
(* Model of PR-CLI: the diff collection pipeline (src/src/utils/git.js,    *)
(* src/src/utils/helpers.js), the formatting of diffs for the prompt       *)
(* (src/src/services/update.js), the main flow (src/src/cli.js), the PR    *)
(* description (src/src/services/pr.js, src/unnamed/part_001) and the      *)
(* creation of the PR with the GitHub CLI (src/src/utils/helpers.js).      *)
(*                                                                         *)
(* Representation of strings.  A text is the non-empty sequence of its     *)
(* lines (what String.split('\n') returns); String.join('\n') is the       *)
(* inverse, so a text and its line sequence determine each other.  A line  *)
(* is a record                                                             *)
(*     k : what the line starts with / contains (the only properties the   *)
(*         code tests with startsWith and includes),                       *)
(*     n : its length in characters,                                       *)
(*     t : a content tag (lines with different tags are different          *)
(*         strings); for an elision notice, the first number it prints,    *)
(*     u : for the global truncation notice, the second number it prints.  *)
(* A revision id is a record [str, chars]: str is (typeof id === 'string') *)
(* and chars the sequence of its characters.                               *)
(***************************************************************************)
EXTENDS Integers, Sequences, FiniteSets, TLC

VARIABLES
    \* ---- truncateDiff (git.js:10-56) ----
    diffContent,          \* argument: the text to truncate
    maxSize,              \* argument
    lines,                \* diffContent.split('\n')
    pos,                  \* position of the for-of iterator in lines
    result,               \* emitted elements
    currentSize,
    filesProcessed,
    currentFile,          \* <<>> models null, <<line>> the header line
    linesInCurrentFile,
    tpc,                  \* control point of truncateDiff
    ret,                  \* <<>> or <<[content, wasTruncated]>>
    bounded,              \* <<>> or the result of getCommitDiffs lines 186-194 on diffContent
    \* ---- filterBinaryFiles (git.js:63-85) ----
    fIn, fOnce, fTwice, fpc,
    \* ---- getCommitDiffs (git.js:116-252) ----
    isArray, commitHashes, includeMergeDiffs,
    i, hash, isMerge,
    diffs, totalSize, validCount, skippedCount,
    mergeCommitsExcluded, binaryFilesFiltered, fetchFailures,
    pending,              \* <<>> or <<[cmd, arg]>>: the external command awaited
    cpc,                  \* control point of getCommitDiffs
    returned,             \* <<>> or <<the array returned>>
    envlog,               \* history: what the collaborators answered for each id
                          \* (a diff is recorded by its shape)
    \* ---- formatDiffsForAI (update.js:165-179) ----
    aDiffs,               \* argument diffs
    aMessages,            \* argument commitMessages
    index,                \* position of forEach in aDiffs (counted from 1)
    formatted,            \* the string built so far, as its pieces
    apc,                  \* control point of formatDiffsForAI
    aRet,                 \* <<>> or <<what the call produced>>
    \* ---- main (cli.js:33-203) ----
    processArgv,          \* hideBin(process.argv): the command-line arguments
    history,              \* the commits `git log` lists, newest first
    argv,                 \* the options yargs reports as set
    readOptions,          \* <<>> or <<[readDiffs, includeMergeDiffs]>>
    commitMessages,
    cliHashes,            \* commitHashes of main
    cliCall,              \* <<>> or <<the arguments main passed to getCommitDiffs>>
    upc,                  \* control point of main
    \* ---- main (cli.js:214-282): the PR description ----
    descMessages,         \* commitMessages of main when the description is built
    geminiApiKey,         \* whether GEMINI_API_KEY is set (part_001:5)
    categorized,          \* <<>> or <<the object categorizeCommits returned>>
    templateContent,      \* <<>> models null, <<text>> the template read
    aiGeneratedContent,   \* <<>> or <<the string generateAIContent resolved to>>
    aiOutcome,            \* history: how the call of generateAIContent ended
    prDescription,        \* <<>> or <<the description>>
    dpc,                  \* control point of this part of main
    \* ---- createGitHubPRWithCLI (helpers.js:151-306) ----
    ghArgv,               \* argument argv: [refill]
    ghDescription,        \* argument prDescription
    prBodyFile,           \* the file PR_BODY.md: <<>> when absent, <<content>>
    existingPr,           \* <<>> or <<what `gh pr view` printed>>
    tempWritten,          \* history: the function has written PR_BODY.md
    unlinkFailed,         \* history: a call of fs.unlink was rejected
    ghPath,               \* history: the steps the call went through
    gpc                   \* control point of createGitHubPRWithCLI

tvars == <<diffContent, maxSize, lines, pos, result, currentSize, filesProcessed,
           currentFile, linesInCurrentFile, tpc, ret, bounded>>
fvars == <<fIn, fOnce, fTwice, fpc>>
cvars == <<isArray, commitHashes, includeMergeDiffs, i, hash, isMerge, diffs,
           totalSize, validCount, skippedCount, mergeCommitsExcluded,
           binaryFilesFiltered, fetchFailures, pending, cpc, returned, envlog>>
avars == <<aDiffs, aMessages, index, formatted, apc, aRet>>
uvars == <<processArgv, history, argv, readOptions, commitMessages, cliHashes, cliCall, upc>>
dvars == <<descMessages, geminiApiKey, categorized, templateContent, aiGeneratedContent,
           aiOutcome, prDescription, dpc>>
gvars == <<ghArgv, ghDescription, prBodyFile, existingPr, tempWritten, unlinkFailed,
           ghPath, gpc>>
vars == <<tvars, fvars, cvars, avars, uvars, dvars, gvars>>

(***************************************************************************)
(* Program constants                                                       *)
(***************************************************************************)
MAX_DIFF_SIZE == 8000
DefaultMaxSize == 10000
maxLinesPerFile == 40
MinHashLen == 7
MaxHashLen == 40

(***************************************************************************)
(* Strings                                                                 *)
(***************************************************************************)
RECURSIVE Digits(_)
\* number of characters of the decimal rendering of an integer in a template literal
Digits(x) == IF x < 0 THEN 1 + Digits(-x)
             ELSE IF x < 10 THEN 1 ELSE 1 + Digits(x \div 10)

Line(k, n, t) == [k |-> k, n |-> n, t |-> t, u |-> 0]
EmptyLine == Line("body", 0, 0)

RECURSIVE SumLen(_, _, _)
\* sum of the lengths of the elements lo..hi of s
SumLen(s, lo, hi) ==
    IF lo > hi THEN 0
    ELSE IF lo = hi THEN s[lo].n
    ELSE LET mid == (lo + hi) \div 2
         IN SumLen(s, lo, mid) + SumLen(s, mid + 1, hi)

\* String.length of the text whose lines are s (also of s.join('\n'))
TextLen(s) == IF s = <<>> THEN 0 ELSE SumLen(s, 1, Len(s)) + Len(s) - 1

\* line.startsWith('diff --git')
StartsWithDiffGit(line) == line.k = "git"

\* the test of git.js:24-25
IsStructural(line) == line.k \in {"git", "index", "minus", "plus"}

\* line.startsWith('Binary files')
StartsWithBinary(line) == line.k = "bin"

\* diffContent.includes('Binary files')
IncludesBinary(text) == \E j \in 1..Len(text) : text[j].k \in {"bin", "hasbin"}

\* `... (${n} more lines omitted)`
OmitNotice(n) == [k |-> "omit", n |-> 25 + Digits(n), t |-> n, u |-> 0]

\* `\n... [Diff truncated: ${c} characters omitted from ${r} remaining lines]`
\* one array element that holds a line break
TruncNotice(c, r) == [k |-> "trunc", n |-> 64 + Digits(c) + Digits(r), t |-> c, u |-> r]

RECURSIVE Join(_, _, _)
\* the lines of the elements lo..hi of res joined with '\n': the global
\* notice contributes an empty line and the notice line
Join(res, lo, hi) ==
    IF lo > hi THEN <<>>
    ELSE IF lo = hi
    THEN LET e == res[lo] IN
         IF e.k = "trunc"
         THEN <<EmptyLine, [k |-> "truncline", n |-> e.n - 1, t |-> e.t, u |-> e.u]>>
         ELSE <<e>>
    ELSE LET mid == (lo + hi) \div 2
         IN Join(res, lo, mid) \o Join(res, mid + 1, hi)

\* result.join('\n') as a text; [].join('\n') is the empty string, whose
\* only line is empty
JoinText(res) == IF res = <<>> THEN <<EmptyLine>> ELSE Join(res, 1, Len(res))

(***************************************************************************)
(* truncateDiff, git.js:10-56                                              *)
(***************************************************************************)
TruncInit == [result |-> <<>>, currentSize |-> 0, filesProcessed |-> 0,
              currentFile |-> <<>>, linesInCurrentFile |-> 0, cut |-> FALSE]

\* git.js:11 with < for <=
FitsBudget_strict(d, m) == TextLen(d) < m

\* git.js:11
FitsBudget(d, m) == TextLen(d) <= m

\* git.js:12
EarlyReturn(d) == [content |-> d, wasTruncated |-> FALSE]

\* git.js:26-36 counting `index `, `---` and `+++` lines as lines of the file
StructuralLine_counted(st, line) ==
    LET closed == IF StartsWithDiffGit(line) /\ st.currentFile # <<>>
                     /\ st.linesInCurrentFile > maxLinesPerFile
                  THEN Append(st.result, OmitNotice(st.linesInCurrentFile - maxLinesPerFile))
                  ELSE st.result
    IN [cut |-> FALSE,
        result |-> Append(closed, line),
        currentSize |-> st.currentSize + line.n + 1,
        filesProcessed |-> IF StartsWithDiffGit(line) THEN st.filesProcessed + 1
                           ELSE st.filesProcessed,
        currentFile |-> IF StartsWithDiffGit(line) THEN <<line>> ELSE st.currentFile,
        linesInCurrentFile |-> IF StartsWithDiffGit(line) THEN 0
                               ELSE st.linesInCurrentFile + 1]

\* git.js:26-36, a structural line
StructuralLine(st, line) ==
    LET closed == IF StartsWithDiffGit(line) /\ st.currentFile # <<>>
                     /\ st.linesInCurrentFile > maxLinesPerFile
                  THEN Append(st.result, OmitNotice(st.linesInCurrentFile - maxLinesPerFile))
                  ELSE st.result
    IN [cut |-> FALSE,
        result |-> Append(closed, line),
        currentSize |-> st.currentSize + line.n + 1,
        filesProcessed |-> IF StartsWithDiffGit(line) THEN st.filesProcessed + 1
                           ELSE st.filesProcessed,
        currentFile |-> IF StartsWithDiffGit(line) THEN <<line>> ELSE st.currentFile,
        linesInCurrentFile |-> IF StartsWithDiffGit(line) THEN 0
                               ELSE st.linesInCurrentFile]

\* git.js:39 testing the budget only for a line the per-file cap would keep
OverBudget_capFirst(st, line, m) ==
    st.linesInCurrentFile < maxLinesPerFile /\ st.currentSize + line.n > m

\* git.js:39
OverBudget(st, line, m) == st.currentSize + line.n > m

\* git.js:40-41, the elements joined on the cutoff path
CutoffResult(st, d, nlines) ==
    Append(st.result,
           TruncNotice(TextLen(d) - st.currentSize, nlines - Len(st.result)))

\* git.js:41
CutoffReturn(st, d, nlines) ==
    [content |-> JoinText(CutoffResult(st, d, nlines)), wasTruncated |-> TRUE]

\* git.js:44-48 with < for <= in the per-file cap
BodyLine_offByOne(st, line) ==
    LET c == st.linesInCurrentFile + 1 IN
    [st EXCEPT !.linesInCurrentFile = c,
               !.result = IF c < maxLinesPerFile THEN Append(@, line) ELSE @,
               !.currentSize = IF c < maxLinesPerFile THEN @ + line.n + 1 ELSE @]

\* git.js:44-48, a body line within budget
BodyLine(st, line) ==
    LET c == st.linesInCurrentFile + 1 IN
    [st EXCEPT !.linesInCurrentFile = c,
               !.result = IF c <= maxLinesPerFile THEN Append(@, line) ELSE @,
               !.currentSize = IF c <= maxLinesPerFile THEN @ + line.n + 1 ELSE @]

\* git.js:51-53 without the notice of the last file
EndResult_silent(st) == st.result

\* git.js:51-55, the elements joined at end of input
EndResult(st) ==
    IF st.linesInCurrentFile > maxLinesPerFile
    THEN Append(st.result, OmitNotice(st.linesInCurrentFile - maxLinesPerFile))
    ELSE st.result

\* git.js:55 reporting per-file elision as truncation
EndReturn_flagElision(st) ==
    [content |-> JoinText(EndResult(st)),
     wasTruncated |-> st.linesInCurrentFile > maxLinesPerFile]

\* git.js:55
EndReturn(st) == [content |-> JoinText(EndResult(st)), wasTruncated |-> FALSE]

\* one iteration of the for-of loop of git.js:23-49; cut records that the
\* return of git.js:40-41 was reached, after which no line is processed
LoopBody(st, line, m) ==
    IF st.cut THEN st
    ELSE IF IsStructural(line) THEN StructuralLine(st, line)
    ELSE IF OverBudget(st, line, m)
    THEN [st EXCEPT !.cut = TRUE]
    ELSE BodyLine(st, line)

RECURSIVE TruncLoop(_, _, _, _, _)
\* the iterations lo..hi of the loop of git.js:23-49, in order
TruncLoop(st, ls, lo, hi, m) ==
    IF lo > hi THEN st
    ELSE IF lo = hi THEN LoopBody(st, ls[lo], m)
    ELSE LET mid == (lo + hi) \div 2
             left == TruncLoop(st, ls, lo, mid, m)
         IN IF left.cut THEN left ELSE TruncLoop(left, ls, mid + 1, hi, m)

\* truncateDiff(diffContent, maxSize)
TruncateDiff(d, m) ==
    IF FitsBudget(d, m)
    THEN EarlyReturn(d)
    ELSE LET st == TruncLoop(TruncInit, d, 1, Len(d), m) IN
         IF st.cut
         THEN CutoffReturn(st, d, Len(d))
         ELSE EndReturn(st)

(***************************************************************************)
(* filterBinaryFiles, git.js:63-85                                         *)
(***************************************************************************)
FilterInit == [filtered |-> <<>>, skipBinary |-> FALSE]

\* git.js:68-81 with the `diff --git` reset after the push instead of before
FilterLine_lateReset(st, line) ==
    IF StartsWithBinary(line)
    THEN [filtered |-> Append(st.filtered, line), skipBinary |-> TRUE]
    ELSE [filtered |-> IF ~st.skipBinary THEN Append(st.filtered, line) ELSE st.filtered,
          skipBinary |-> IF StartsWithDiffGit(line) THEN FALSE ELSE st.skipBinary]

\* git.js:68-81 dropping the `Binary files` line together with its block
FilterLine_dropsMarker(st, line) ==
    IF StartsWithBinary(line)
    THEN [filtered |-> st.filtered, skipBinary |-> TRUE]
    ELSE LET skip == IF StartsWithDiffGit(line) THEN FALSE ELSE st.skipBinary
         IN [filtered |-> IF ~skip THEN Append(st.filtered, line) ELSE st.filtered,
             skipBinary |-> skip]

\* git.js:68-81, one iteration of the loop
FilterLine(st, line) ==
    IF StartsWithBinary(line)
    THEN [filtered |-> Append(st.filtered, line), skipBinary |-> TRUE]
    ELSE LET skip == IF StartsWithDiffGit(line) THEN FALSE ELSE st.skipBinary
         IN [filtered |-> IF ~skip THEN Append(st.filtered, line) ELSE st.filtered,
             skipBinary |-> skip]

RECURSIVE FilterLoop(_, _, _, _)
\* the iterations lo..hi of the loop of git.js:68-82, in order (the left half
\* is evaluated before the right half is entered)
FilterLoop(st, ls, lo, hi) ==
    IF lo > hi THEN st
    ELSE IF lo = hi THEN FilterLine(st, ls[lo])
    ELSE LET mid == (lo + hi) \div 2
             left == FilterLoop(st, ls, lo, mid)
         IN IF left.skipBinary \in BOOLEAN THEN FilterLoop(left, ls, mid + 1, hi) ELSE left

\* filterBinaryFiles(diffContent)
FilterBinaryFiles(d) == JoinText(FilterLoop(FilterInit, d, 1, Len(d)).filtered)

\* getCommitDiffs, git.js:186-194: finalContent and wasTruncated
BoundDiff(d) ==
    IF TextLen(d) > MAX_DIFF_SIZE
    THEN LET r == TruncateDiff(d, MAX_DIFF_SIZE)
         IN [content |-> r.content, truncated |-> r.wasTruncated]
    ELSE [content |-> d, truncated |-> FALSE]

(***************************************************************************)
(* Inputs of truncateDiff: texts assembled from blocks of lines            *)
(***************************************************************************)
MaxSegs == 3

Rep(line, count) == [j \in 1..count |-> line]

\* a block of lines of a diff, by name
Block(b) ==
    CASE b = "hdr"      -> <<Line("git", 26, 0), Line("index", 25, 0),
                             Line("minus", 23, 0), Line("plus", 23, 0)>>
      [] b = "git"      -> <<Line("git", 30, 0)>>
      [] b = "hmin"     -> <<Line("minus", 4100, 0)>>
      [] b = "big"      -> <<Line("body", 5000, 0)>>
      [] b = "mid"      -> <<Line("body", 2990, 0)>>
      [] b = "cap"      -> Rep(Line("body", 3, 0), 41)
      [] b = "b198x100" -> Rep(Line("body", 198, 0), 100)
      [] b = "b3x40"    -> Rep(Line("body", 3, 0), 40)
      [] b = "b328x60"  -> Rep(Line("body", 328, 0), 60)
      [] b = "b128x60"  -> Rep(Line("body", 128, 0), 60)
      [] b = "longtail" -> Rep(Line("body", 2, 0), 59) \o <<Line("body", 19562, 0)>>
      [] b = "e45"      -> Rep(Line("body", 0, 0), 45)
      [] b = "two"      -> Rep(Line("body", 12, 0), 2)
      [] b = "bin"      -> <<Line("bin", 40, 0)>>
      [] b = "hasbin"   -> <<Line("hasbin", 30, 0)>>
      [] b = "b4000x2"  -> Rep(Line("body", 4000, 0), 2)

RECURSIVE Concat(_)
Concat(shape) == IF shape = <<>> THEN <<>> ELSE Block(Head(shape)) \o Concat(Tail(shape))

\* the text made of the blocks of a shape; the tag of a line is its position,
\* so that all lines of an input are different strings
Build(shape) ==
    LET ls == Concat(shape) IN [j \in 1..Len(ls) |-> [ls[j] EXCEPT !.t = j]]

GenBlocks == {"hdr", "git", "hmin", "big", "mid", "cap"}

RECURSIVE ShapesUpTo(_)
ShapesUpTo(n) ==
    IF n = 0 THEN {<<>>}
    ELSE LET S == ShapesUpTo(n - 1)
         IN S \cup {Append(s, b) : s \in {x \in S : Len(x) = n - 1}, b \in GenBlocks}

\* single-file and multi-file diffs with more than maxLinesPerFile body lines per file
LongShapes ==
    { <<"hdr", "b198x100">>,
      <<"hdr", "b3x40", "b328x60">>,
      <<"hdr", "b3x40", "longtail">>,
      <<"hdr", "b3x40", "b128x60">>,
      <<"hdr", "cap", "hdr", "b328x60">>,
      <<"hdr", "cap", "hdr", "cap", "big", "mid", "mid">>,
      <<"hdr", "e45", "hdr", "e45", "hmin", "hmin">>,
      <<"cap", "hdr", "b328x60">>,
      <<"hdr", "b3x40", "longtail", "hdr", "two">>,
      <<"cap", "hdr", "hmin", "hmin">> }

TruncShapes == (ShapesUpTo(MaxSegs) \ {<<>>}) \cup LongShapes

TruncInputs == {Build(s) : s \in TruncShapes} \cup {<<EmptyLine>>}

MaxSizes == {MAX_DIFF_SIZE, DefaultMaxSize}

(***************************************************************************)
(* truncateDiff as a state machine: one action per loop iteration          *)
(***************************************************************************)
TState == [result |-> result, currentSize |-> currentSize,
           filesProcessed |-> filesProcessed, currentFile |-> currentFile,
           linesInCurrentFile |-> linesInCurrentFile, cut |-> FALSE]

SetTState(st) ==
    /\ result' = st.result
    /\ currentSize' = st.currentSize
    /\ filesProcessed' = st.filesProcessed
    /\ currentFile' = st.currentFile
    /\ linesInCurrentFile' = st.linesInCurrentFile

FilterIdle == fIn = <<>> /\ fOnce = <<>> /\ fTwice = <<>> /\ fpc = "idle"

CollectIdle ==
    /\ isArray = TRUE /\ commitHashes = <<>> /\ includeMergeDiffs = FALSE
    /\ i = 0 /\ hash = <<>> /\ isMerge = FALSE /\ diffs = <<>>
    /\ totalSize = 0 /\ validCount = 0 /\ skippedCount = 0
    /\ mergeCommitsExcluded = 0 /\ binaryFilesFiltered = 0 /\ fetchFailures = 0
    /\ pending = <<>> /\ cpc = "idle" /\ returned = <<>> /\ envlog = <<>>

FormatIdle ==
    /\ aDiffs = <<>> /\ aMessages = <<>> /\ index = 0 /\ formatted = <<>>
    /\ apc = "idle" /\ aRet = <<>>

CliIdle ==
    /\ processArgv = <<>> /\ history = <<>> /\ argv = {} /\ readOptions = <<>>
    /\ commitMessages = <<>> /\ cliHashes = <<>> /\ cliCall = <<>> /\ upc = "idle"

DescribeIdle ==
    /\ descMessages = <<>> /\ geminiApiKey = FALSE /\ categorized = <<>>
    /\ templateContent = <<>> /\ aiGeneratedContent = <<>> /\ aiOutcome = "none"
    /\ prDescription = <<>> /\ dpc = "idle"

GhIdle ==
    /\ ghArgv = [refill |-> FALSE] /\ ghDescription = <<>> /\ prBodyFile = <<>>
    /\ existingPr = <<>> /\ tempWritten = FALSE /\ unlinkFailed = FALSE
    /\ ghPath = <<>> /\ gpc = "idle"

TruncIdle ==
    /\ diffContent = <<>> /\ maxSize = 0 /\ lines = <<>> /\ pos = 0
    /\ result = <<>> /\ currentSize = 0 /\ filesProcessed = 0
    /\ currentFile = <<>> /\ linesInCurrentFile = 0
    /\ tpc = "idle" /\ ret = <<>> /\ bounded = <<>>

TInit ==
    /\ diffContent \in TruncInputs
    /\ maxSize \in MaxSizes
    /\ lines = <<>> /\ pos = 0
    /\ result = <<>> /\ currentSize = 0 /\ filesProcessed = 0
    /\ currentFile = <<>> /\ linesInCurrentFile = 0
    /\ tpc = "entry" /\ ret = <<>> /\ bounded = <<>>
    /\ FilterIdle /\ CollectIdle /\ FormatIdle /\ CliIdle
    /\ DescribeIdle /\ GhIdle

\* git.js:11-13
TruncEarly ==
    /\ tpc = "entry"
    /\ FitsBudget(diffContent, maxSize)
    /\ ret' = <<EarlyReturn(diffContent)>>
    /\ tpc' = "returned"
    /\ UNCHANGED <<diffContent, maxSize, lines, pos, result, currentSize,
                   filesProcessed, currentFile, linesInCurrentFile, bounded>>
    /\ UNCHANGED <<fvars, cvars, avars, uvars, dvars, gvars>>

\* git.js:15-21
TruncSplit ==
    /\ tpc = "entry"
    /\ ~FitsBudget(diffContent, maxSize)
    /\ lines' = diffContent
    /\ pos' = 1
    /\ SetTState(TruncInit)
    /\ tpc' = "loop"
    /\ UNCHANGED <<diffContent, maxSize, ret, bounded>>
    /\ UNCHANGED <<fvars, cvars, avars, uvars, dvars, gvars>>

\* git.js:24-37
TruncStructural ==
    /\ tpc = "loop" /\ pos <= Len(lines)
    /\ IsStructural(lines[pos])
    /\ SetTState(StructuralLine(TState, lines[pos]))
    /\ pos' = pos + 1
    /\ UNCHANGED <<diffContent, maxSize, lines, tpc, ret, bounded>>
    /\ UNCHANGED <<fvars, cvars, avars, uvars, dvars, gvars>>

\* git.js:39-42
TruncCutoff ==
    /\ tpc = "loop" /\ pos <= Len(lines)
    /\ ~IsStructural(lines[pos])
    /\ OverBudget(TState, lines[pos], maxSize)
    /\ result' = CutoffResult(TState, diffContent, Len(lines))
    /\ ret' = <<CutoffReturn(TState, diffContent, Len(lines))>>
    /\ tpc' = "returned"
    /\ UNCHANGED <<diffContent, maxSize, lines, pos, currentSize, filesProcessed,
                   currentFile, linesInCurrentFile, bounded>>
    /\ UNCHANGED <<fvars, cvars, avars, uvars, dvars, gvars>>

\* git.js:44-48
TruncBody ==
    /\ tpc = "loop" /\ pos <= Len(lines)
    /\ ~IsStructural(lines[pos])
    /\ ~OverBudget(TState, lines[pos], maxSize)
    /\ SetTState(BodyLine(TState, lines[pos]))
    /\ pos' = pos + 1
    /\ UNCHANGED <<diffContent, maxSize, lines, tpc, ret, bounded>>
    /\ UNCHANGED <<fvars, cvars, avars, uvars, dvars, gvars>>

\* git.js:51-55
TruncEnd ==
    /\ tpc = "loop" /\ pos > Len(lines)
    /\ result' = EndResult(TState)
    /\ ret' = <<EndReturn(TState)>>
    /\ tpc' = "returned"
    /\ UNCHANGED <<diffContent, maxSize, lines, pos, currentSize, filesProcessed,
                   currentFile, linesInCurrentFile, bounded>>
    /\ UNCHANGED <<fvars, cvars, avars, uvars, dvars, gvars>>

\* git.js:186-194, the caller in getCommitDiffs applied to the same text
BoundCall ==
    /\ tpc = "returned" /\ bounded = <<>>
    /\ bounded' = <<BoundDiff(diffContent)>>
    /\ UNCHANGED <<diffContent, maxSize, lines, pos, result, currentSize,
                   filesProcessed, currentFile, linesInCurrentFile, tpc, ret>>
    /\ UNCHANGED <<fvars, cvars, avars, uvars, dvars, gvars>>

TNext == \/ TruncEarly \/ TruncSplit \/ TruncStructural \/ TruncCutoff
         \/ TruncBody \/ TruncEnd \/ BoundCall

SpecTrunc == TInit /\ [][TNext]_vars

(***************************************************************************)
(* Revision ids, helpers.js:40-45                                          *)
(***************************************************************************)
HexChars == {"0", "1", "2", "3", "4", "5", "6", "7", "8", "9",
             "a", "b", "c", "d", "e", "f", "A", "B", "C", "D", "E", "F"}
WhiteSpace == {" ", "\t", "\r", "\n"}

\* String.prototype.trim on a sequence of characters
Trim(cs) ==
    LET keep == {j \in 1..Len(cs) : cs[j] \notin WhiteSpace} IN
    IF keep = {} THEN <<>>
    ELSE LET first == CHOOSE j \in keep : \A q \in keep : j <= q
             last == CHOOSE j \in keep : \A q \in keep : q <= j
         IN SubSeq(cs, first, last)

\* /^[0-9a-f]{7,40}$/i.test(cs)
MatchesHash(cs) ==
    /\ Len(cs) >= MinHashLen /\ Len(cs) <= MaxHashLen
    /\ \A j \in 1..Len(cs) : cs[j] \in HexChars

\* helpers.js:40-45
IsValidCommitHash(h) == h.str /\ MatchesHash(Trim(h.chars))

Str(cs) == [str |-> TRUE, chars |-> cs]
\* a value that is not a string (null)
NullId == [str |-> FALSE, chars |-> <<>>]
\* the literal '[empty]'
EmptyLabel == Str(<<"[", "e", "m", "p", "t", "y", "]">>)

\* git.js:151 labelling every rejected id '[empty]'
OrEmpty_always(h) == EmptyLabel

\* hash || '[empty]', git.js:151
OrEmpty(h) == IF h.chars = <<>> THEN EmptyLabel ELSE h

(***************************************************************************)
(* isMergeCommit, git.js:92-108                                            *)
(***************************************************************************)
\* helpers.js:30: what executeCommand resolves with for the given stdout
Resolved(stdout) == Trim(stdout)

RECURSIVE SplitWS(_, _)
\* String.prototype.split(/\s+/) on a sequence of characters; cur is the
\* token being read.  Every maximal run of white space separates two tokens,
\* so the empty string gives one empty token
SplitWS(cs, cur) ==
    IF cs = <<>> THEN <<cur>>
    ELSE IF Head(cs) \in WhiteSpace
    THEN IF Len(cs) > 1 /\ cs[2] \in WhiteSpace
         THEN SplitWS(Tail(cs), cur)
         ELSE <<cur>> \o SplitWS(Tail(cs), <<>>)
    ELSE SplitWS(Tail(cs), Append(cur, Head(cs)))

\* parents.trim().split(/\s+/), git.js:104
SplitTokens(parents) == SplitWS(Trim(parents), <<>>)

\* git.js:104 taking only a commit with three or more parents for a merge
MoreThanOneParent_octopusOnly(parents) == Len(SplitTokens(parents)) > 3

\* git.js:104 with >= for >
MoreThanOneParent_atLeastTwo(parents) == Len(SplitTokens(parents)) >= 2

\* git.js:104
MoreThanOneParent(parents) == Len(SplitTokens(parents)) > 2

(***************************************************************************)
(* getCommitDiffs, git.js:116-252                                          *)
(***************************************************************************)
InvalidPlaceholder == <<[k |-> "invalid-placeholder", n |-> 31, t |-> 0, u |-> 0]>>
MergePlaceholder == <<[k |-> "merge-placeholder", n |-> 30, t |-> 0, u |-> 0]>>
ErrorPlaceholder == <<[k |-> "error-placeholder", n |-> 21, t |-> 0, u |-> 0]>>

\* the accumulators of git.js:131-137
CState == [diffs |-> diffs, totalSize |-> totalSize, validCount |-> validCount,
           skippedCount |-> skippedCount, mergeCommitsExcluded |-> mergeCommitsExcluded,
           binaryFilesFiltered |-> binaryFilesFiltered, fetchFailures |-> fetchFailures]

SetCState(c) ==
    /\ diffs' = c.diffs
    /\ totalSize' = c.totalSize
    /\ validCount' = c.validCount
    /\ skippedCount' = c.skippedCount
    /\ mergeCommitsExcluded' = c.mergeCommitsExcluded
    /\ binaryFilesFiltered' = c.binaryFilesFiltered
    /\ fetchFailures' = c.fetchFailures

CollectInit == [diffs |-> <<>>, totalSize |-> 0, validCount |-> 0, skippedCount |-> 0,
                mergeCommitsExcluded |-> 0, binaryFilesFiltered |-> 0, fetchFailures |-> 0]

\* git.js:140 giving up after the first failure
InLoop_abortOnFailure(idx, hashes) == idx <= Len(hashes) /\ fetchFailures = 0

\* git.js:140, the loop condition (idx counts from 1)
InLoop(idx, hashes) == idx <= Len(hashes)

\* git.js:146-156 counting the invalid id without recording an outcome
InvalidHash_noOutcome(c, h) ==
    [c EXCEPT !.skippedCount = @ + 1, !.fetchFailures = @ + 1]

\* git.js:146-156, an invalid id
InvalidHash(c, h) ==
    [c EXCEPT !.skippedCount = @ + 1,
              !.fetchFailures = @ + 1,
              !.diffs = Append(@, [hash |-> OrEmpty(h),
                                   content |-> InvalidPlaceholder,
                                   truncated |-> FALSE,
                                   error |-> <<[kind |-> "invalid-format", about |-> h]>>])]

\* git.js:162-169 adding the placeholder to totalSize
MergeExcluded_sized(c, h) ==
    [c EXCEPT !.mergeCommitsExcluded = @ + 1,
              !.diffs = Append(@, [hash |-> h,
                                   content |-> MergePlaceholder,
                                   truncated |-> FALSE,
                                   error |-> <<>>]),
              !.totalSize = @ + TextLen(MergePlaceholder),
              !.validCount = @ + 1]

\* git.js:162-169, a merge commit whose diff is excluded
MergeExcluded(c, h) ==
    [c EXCEPT !.mergeCommitsExcluded = @ + 1,
              !.diffs = Append(@, [hash |-> h,
                                   content |-> MergePlaceholder,
                                   truncated |-> FALSE,
                                   error |-> <<>>]),
              !.validCount = @ + 1]

\* git.js:173-175
DiffCommand(merge, h) ==
    [cmd |-> IF merge THEN "git show --format=" ELSE "git show --format= --no-color",
     arg |-> h]

\* git.js:179-203 reporting a truncated diff as an error of the outcome
DiffFetched_truncationError(c, h, text) ==
    LET filteredText == FilterBinaryFiles(text)
        b == BoundDiff(filteredText)
    IN [c EXCEPT !.binaryFilesFiltered = IF IncludesBinary(text) THEN @ + 1 ELSE @,
                 !.totalSize = @ + TextLen(b.content),
                 !.validCount = @ + 1,
                 !.diffs = Append(@, [hash |-> h,
                                      content |-> b.content,
                                      truncated |-> b.truncated,
                                      error |-> IF b.truncated
                                                THEN <<[kind |-> "truncated", about |-> h]>>
                                                ELSE <<>>])]

\* git.js:179-203 adding the length of the fetched text to totalSize
DiffFetched_rawSize(c, h, text) ==
    LET filteredText == FilterBinaryFiles(text)
        b == BoundDiff(filteredText)
    IN [c EXCEPT !.binaryFilesFiltered = IF IncludesBinary(text) THEN @ + 1 ELSE @,
                 !.totalSize = @ + TextLen(text),
                 !.validCount = @ + 1,
                 !.diffs = Append(@, [hash |-> h,
                                      content |-> b.content,
                                      truncated |-> b.truncated,
                                      error |-> <<>>])]

\* git.js:179-203, the diff was fetched
DiffFetched(c, h, text) ==
    LET filteredText == FilterBinaryFiles(text)
        b == BoundDiff(filteredText)
    IN [c EXCEPT !.binaryFilesFiltered = IF IncludesBinary(text) THEN @ + 1 ELSE @,
                 !.totalSize = @ + TextLen(b.content),
                 !.validCount = @ + 1,
                 !.diffs = Append(@, [hash |-> h,
                                      content |-> b.content,
                                      truncated |-> b.truncated,
                                      error |-> <<>>])]

\* git.js:205-215 leaving the loop iteration without recording the outcome
FetchFailed_noOutcome(c, h, cmd) ==
    [c EXCEPT !.skippedCount = @ + 1, !.fetchFailures = @ + 1]

\* git.js:205-215 without the increment of skippedCount
FetchFailed_uncounted(c, h, cmd) ==
    [c EXCEPT !.fetchFailures = @ + 1,
              !.diffs = Append(@, [hash |-> h,
                                   content |-> ErrorPlaceholder,
                                   truncated |-> FALSE,
                                   error |-> <<[kind |-> "command-failed", about |-> cmd.arg]>>])]

\* git.js:205-215, the catch block; cmd is the command that failed
FetchFailed(c, h, cmd) ==
    [c EXCEPT !.skippedCount = @ + 1,
              !.fetchFailures = @ + 1,
              !.diffs = Append(@, [hash |-> h,
                                   content |-> ErrorPlaceholder,
                                   truncated |-> FALSE,
                                   error |-> <<[kind |-> "command-failed", about |-> cmd.arg]>>])]

(***************************************************************************)
(* filterBinaryFiles applied once and twice                                *)
(***************************************************************************)
MaxFilterLines == 4

FilterKinds == {Line("git", 30, 0), Line("bin", 40, 0), Line("body", 5, 0),
                Line("hasbin", 20, 0)}

RECURSIVE LineSeqs(_)
\* the sequences of exactly n lines of FilterKinds
LineSeqs(n) ==
    IF n = 0 THEN {<<>>}
    ELSE {Append(s, l) : s \in LineSeqs(n - 1), l \in FilterKinds}

Tagged(ls) == [j \in 1..Len(ls) |-> [ls[j] EXCEPT !.t = j]]

FilterInputs ==
    {<<EmptyLine>>} \cup UNION {{Tagged(s) : s \in LineSeqs(n)} : n \in 1..MaxFilterLines}

FInit ==
    /\ fIn \in FilterInputs
    /\ fOnce = <<>> /\ fTwice = <<>> /\ fpc = "start"
    /\ TruncIdle /\ CollectIdle /\ FormatIdle /\ CliIdle
    /\ DescribeIdle /\ GhIdle

FilterFirst ==
    /\ fpc = "start"
    /\ fOnce' = <<FilterBinaryFiles(fIn)>>
    /\ fpc' = "once"
    /\ UNCHANGED <<fIn, fTwice, tvars, cvars, avars, uvars, dvars, gvars>>

FilterSecond ==
    /\ fpc = "once"
    /\ fTwice' = <<FilterBinaryFiles(fOnce[1])>>
    /\ fpc' = "twice"
    /\ UNCHANGED <<fIn, fOnce, tvars, cvars, avars, uvars, dvars, gvars>>

FNext == FilterFirst \/ FilterSecond

SpecFilter == FInit /\ [][FNext]_vars

\* C9: filterBinaryFiles is idempotent: filtering the filtered text again
\* gives the filtered text.
C9_FilterIdempotent == fpc = "twice" => fTwice[1] = fOnce[1]

C9_Witness ==
    /\ fpc = "twice"
    /\ Len(fOnce[1]) < Len(fIn)
    /\ \E j \in 1..Len(fOnce[1]) : StartsWithDiffGit(fOnce[1][j])

(***************************************************************************)
(* getCommitDiffs as a state machine: one action per step between awaits   *)
(***************************************************************************)
MaxCommits == 2

HexId == Str(<<"a", "b", "c", "1", "2", "3", "4">>)
PaddedId == Str(<<" ", "D", "E", "A", "D", "b", "e", "e", "\r">>)
ShortId == Str(<<"a", "b", "c", "1", "2", "3">>)
WordId == Str(<<"x", "y", "z">>)
EmptyId == Str(<<>>)

IdCandidates == {HexId, PaddedId, ShortId, WordId, EmptyId, NullId}

RECURSIVE IdSeqs(_)
\* the arrays of exactly n ids
IdSeqs(n) ==
    IF n = 0 THEN {<<>>}
    ELSE {Append(s, h) : s \in IdSeqs(n - 1), h \in IdCandidates}

HashArrays == UNION {IdSeqs(n) : n \in 0..MaxCommits}

\* what `git rev-list --parents -n 1` prints for a commit with one parent and
\* for a commit with two: the ids (one character each here) separated by
\* spaces and ended by a line break
ParentOutputs == {<<"c", " ", "p", "\n">>, <<"c", " ", "p", " ", "q", "\n">>}

MaxParentChars == 5
ParentChars == {"c", " ", "\n"}

\* every output of at most MaxParentChars characters
ShortOutputs == UNION {[1..n -> ParentChars] : n \in 0..MaxParentChars}

\* the outputs of the parent lookup that are enumerated: every short output
\* when the batch has one id, the two outputs of git otherwise
ParentAnswers(hashes) ==
    IF Len(hashes) = 1 THEN ShortOutputs \cup ParentOutputs ELSE ParentOutputs

\* what `git show --format=""` prints, trimmed by executeCommand
\* (helpers.js:30), by shape: a small diff; a diff with a binary file that
\* is cut off at the budget; a diff that mentions 'Binary files' inside a
\* line and has more than maxLinesPerFile body lines
FetchShapes ==
    { <<"hdr", "two">>,
      <<"hdr", "bin", "two", "hdr", "big", "mid", "mid">>,
      <<"hdr", "hasbin", "b3x40", "b4000x2">> }

\* further diffs, answered when the batch has one id: one file with 41 short
\* body lines, and that file followed by one that crosses the budget
SingleFetchShapes ==
    { <<"hdr", "cap">>,
      <<"hdr", "cap", "hdr", "b328x60">> }

\* the diffs of the diff fetch that are enumerated
ShowAnswers(hashes) ==
    IF Len(hashes) = 1 THEN FetchShapes \cup SingleFetchShapes ELSE FetchShapes

FetchTexts == [s \in FetchShapes \cup SingleFetchShapes |-> Build(s)]

CInit ==
    /\ isArray \in BOOLEAN
    /\ commitHashes \in (IF isArray THEN HashArrays ELSE {<<>>})
    /\ includeMergeDiffs \in BOOLEAN
    /\ i = 0 /\ hash = <<>> /\ isMerge = FALSE /\ diffs = <<>>
    /\ totalSize = 0 /\ validCount = 0 /\ skippedCount = 0
    /\ mergeCommitsExcluded = 0 /\ binaryFilesFiltered = 0 /\ fetchFailures = 0
    /\ pending = <<>> /\ cpc = "start" /\ returned = <<>> /\ envlog = <<>>
    /\ TruncIdle /\ FilterIdle /\ FormatIdle /\ CliIdle
    /\ DescribeIdle /\ GhIdle

NoAnswer == [parents |-> <<>>, show |-> <<>>]

\* git.js:119-122
RejectNonArray ==
    /\ cpc = "start" /\ ~isArray
    /\ returned' = <<<<>>>>
    /\ cpc' = "done"
    /\ UNCHANGED <<isArray, commitHashes, includeMergeDiffs, i, hash, isMerge, diffs,
                   totalSize, validCount, skippedCount, mergeCommitsExcluded,
                   binaryFilesFiltered, fetchFailures, pending, envlog>>
    /\ UNCHANGED <<tvars, fvars, avars, uvars, dvars, gvars>>

\* git.js:124-127
RejectEmpty ==
    /\ cpc = "start" /\ isArray /\ Len(commitHashes) = 0
    /\ returned' = <<<<>>>>
    /\ cpc' = "done"
    /\ UNCHANGED <<isArray, commitHashes, includeMergeDiffs, i, hash, isMerge, diffs,
                   totalSize, validCount, skippedCount, mergeCommitsExcluded,
                   binaryFilesFiltered, fetchFailures, pending, envlog>>
    /\ UNCHANGED <<tvars, fvars, avars, uvars, dvars, gvars>>

\* git.js:129-140
BeginLoop ==
    /\ cpc = "start" /\ isArray /\ Len(commitHashes) # 0
    /\ SetCState(CollectInit)
    /\ i' = 1
    /\ cpc' = "loop"
    /\ UNCHANGED <<isArray, commitHashes, includeMergeDiffs, hash, isMerge, pending,
                   returned, envlog>>
    /\ UNCHANGED <<tvars, fvars, avars, uvars, dvars, gvars>>

\* git.js:141-157
SkipInvalid ==
    /\ cpc = "loop" /\ InLoop(i, commitHashes)
    /\ ~IsValidCommitHash(commitHashes[i])
    /\ SetCState(InvalidHash(CState, commitHashes[i]))
    /\ envlog' = Append(envlog, NoAnswer)
    /\ i' = i + 1
    /\ UNCHANGED <<isArray, commitHashes, includeMergeDiffs, hash, isMerge, pending,
                   cpc, returned>>
    /\ UNCHANGED <<tvars, fvars, avars, uvars, dvars, gvars>>

\* git.js:141-160 and 92-103: a valid id; isMergeCommit starts the parent lookup
CallIsMerge ==
    /\ cpc = "loop" /\ InLoop(i, commitHashes)
    /\ IsValidCommitHash(commitHashes[i])
    /\ hash' = <<commitHashes[i]>>
    /\ pending' = <<[cmd |-> "git rev-list --parents -n 1", arg |-> commitHashes[i]]>>
    /\ envlog' = Append(envlog, NoAnswer)
    /\ cpc' = "parents"
    /\ UNCHANGED <<isArray, commitHashes, includeMergeDiffs, i, isMerge, diffs,
                   totalSize, validCount, skippedCount, mergeCommitsExcluded,
                   binaryFilesFiltered, fetchFailures, returned>>
    /\ UNCHANGED <<tvars, fvars, avars, uvars, dvars, gvars>>

\* git.js:104: the parent lookup answered
ParentsAnswered ==
    /\ cpc = "parents"
    /\ \E out \in ParentAnswers(commitHashes) :
          /\ isMerge' = MoreThanOneParent(Resolved(out))
          /\ envlog' = [envlog EXCEPT ![i].parents = <<[ok |-> TRUE, out |-> out]>>]
    /\ pending' = <<>>
    /\ cpc' = "classified"
    /\ UNCHANGED <<isArray, commitHashes, includeMergeDiffs, i, hash, diffs,
                   totalSize, validCount, skippedCount, mergeCommitsExcluded,
                   binaryFilesFiltered, fetchFailures, returned>>
    /\ UNCHANGED <<tvars, fvars, avars, uvars, dvars, gvars>>

\* git.js:105-107: the parent lookup failed
ParentsFailed ==
    /\ cpc = "parents"
    /\ isMerge' = FALSE
    /\ envlog' = [envlog EXCEPT ![i].parents = <<[ok |-> FALSE, out |-> <<>>]>>]
    /\ pending' = <<>>
    /\ cpc' = "classified"
    /\ UNCHANGED <<isArray, commitHashes, includeMergeDiffs, i, hash, diffs,
                   totalSize, validCount, skippedCount, mergeCommitsExcluded,
                   binaryFilesFiltered, fetchFailures, returned>>
    /\ UNCHANGED <<tvars, fvars, avars, uvars, dvars, gvars>>

\* git.js:161-171
ExcludeMerge ==
    /\ cpc = "classified"
    /\ isMerge /\ ~includeMergeDiffs
    /\ SetCState(MergeExcluded(CState, hash[1]))
    /\ i' = i + 1
    /\ hash' = <<>> /\ isMerge' = FALSE
    /\ cpc' = "loop"
    /\ UNCHANGED <<isArray, commitHashes, includeMergeDiffs, pending, returned, envlog>>
    /\ UNCHANGED <<tvars, fvars, avars, uvars, dvars, gvars>>

\* git.js:173-177: the diff fetch starts
CallShow ==
    /\ cpc = "classified"
    /\ ~(isMerge /\ ~includeMergeDiffs)
    /\ pending' = <<DiffCommand(isMerge, hash[1])>>
    /\ cpc' = "show"
    /\ UNCHANGED <<isArray, commitHashes, includeMergeDiffs, i, hash, isMerge, diffs,
                   totalSize, validCount, skippedCount, mergeCommitsExcluded,
                   binaryFilesFiltered, fetchFailures, returned, envlog>>
    /\ UNCHANGED <<tvars, fvars, avars, uvars, dvars, gvars>>

\* git.js:177-203: the diff fetch answered
ShowAnswered ==
    /\ cpc = "show"
    /\ \E s \in ShowAnswers(commitHashes) :
          /\ SetCState(DiffFetched(CState, hash[1], FetchTexts[s]))
          /\ envlog' = [envlog EXCEPT ![i].show = <<[ok |-> TRUE, out |-> s]>>]
    /\ pending' = <<>>
    /\ i' = i + 1
    /\ hash' = <<>> /\ isMerge' = FALSE
    /\ cpc' = "loop"
    /\ UNCHANGED <<isArray, commitHashes, includeMergeDiffs, returned>>
    /\ UNCHANGED <<tvars, fvars, avars, uvars, dvars, gvars>>

\* git.js:205-216: the diff fetch failed
ShowFailed ==
    /\ cpc = "show"
    /\ SetCState(FetchFailed(CState, hash[1], pending[1]))
    /\ envlog' = [envlog EXCEPT ![i].show = <<[ok |-> FALSE, out |-> <<>>]>>]
    /\ pending' = <<>>
    /\ i' = i + 1
    /\ hash' = <<>> /\ isMerge' = FALSE
    /\ cpc' = "loop"
    /\ UNCHANGED <<isArray, commitHashes, includeMergeDiffs, returned>>
    /\ UNCHANGED <<tvars, fvars, avars, uvars, dvars, gvars>>

\* git.js:219-251
ReturnDiffs ==
    /\ cpc = "loop" /\ ~InLoop(i, commitHashes)
    /\ returned' = <<diffs>>
    /\ cpc' = "done"
    /\ UNCHANGED <<isArray, commitHashes, includeMergeDiffs, i, hash, isMerge, diffs,
                   totalSize, validCount, skippedCount, mergeCommitsExcluded,
                   binaryFilesFiltered, fetchFailures, pending, envlog>>
    /\ UNCHANGED <<tvars, fvars, avars, uvars, dvars, gvars>>

Next == \/ RejectNonArray \/ RejectEmpty \/ BeginLoop \/ SkipInvalid \/ CallIsMerge
        \/ ParentsAnswered \/ ParentsFailed \/ ExcludeMerge \/ CallShow
        \/ ShowAnswered \/ ShowFailed \/ ReturnDiffs

Spec == CInit /\ [][Next]_vars

(***************************************************************************)
(* formatDiffsForAI, update.js:165-179.  The string under construction is  *)
(* the sequence of the pieces appended to it.                              *)
(***************************************************************************)
Piece(k, ord, text, id, body) ==
    [k |-> k, ord |-> ord, text |-> text, id |-> id, body |-> body]

\* "\n\n=== CODE CHANGES ===\n\n"
Header == Piece("header", 0, "", NullId, <<>>)

\* the value of an array element: an index outside the array gives undefined
Undefined == [def |-> FALSE, text |-> ""]
Defined(t) == [def |-> TRUE, text |-> t]
\* arr[idx], idx counted from 0
ElementAt(arr, idx) ==
    IF idx + 1 \in 1..Len(arr) THEN Defined(arr[idx + 1]) ELSE Undefined

\* ${v} in a template literal
ToText(v) == IF v.def THEN v.text ELSE "undefined"

\* update.js:169 printing the index instead of index + 1
CommitLine_zeroBased(idx, msgs) ==
    Piece("commit", idx, ToText(ElementAt(msgs, idx)), NullId, <<>>)

\* update.js:169: `Commit ${index + 1}: ${commitMessages[index]}\n`
CommitLine(idx, msgs) ==
    Piece("commit", idx + 1, ToText(ElementAt(msgs, idx)), NullId, <<>>)

\* update.js:170: `Hash: ${diff.hash}\n`
HashLine(diff) == Piece("hash", 0, "", diff.hash, <<>>)

\* update.js:171: the content between "```diff\n" and "\n```\n\n"
Fence(diff) == Piece("fence", 0, "", NullId, diff.content)

\* update.js:174: "[Note: This diff was truncated due to size limits]\n\n"
TruncationNote == Piece("note", 0, "", NullId, <<>>)

\* update.js:168-176: what one call of the forEach callback appends
FormatBlock(diff, idx, msgs) ==
    <<CommitLine(idx, msgs), HashLine(diff), Fence(diff)>>
        \o (IF diff.truncated THEN <<TruncationNote>> ELSE <<>>)

RECURSIVE FormatLoop(_, _, _, _)
\* the calls of the callback for the elements idx, idx + 1, ... of ds
FormatLoop(acc, ds, idx, msgs) ==
    IF idx >= Len(ds) THEN acc
    ELSE FormatLoop(acc \o FormatBlock(ds[idx + 1], idx, msgs), ds, idx + 1, msgs)

\* update.js:178: the function returns the string; it has no other exit
FormatReturn(str) == [kind |-> "string", value |-> str]

\* formatDiffsForAI(diffs, commitMessages)
FormatDiffsForAI(ds, msgs) == FormatReturn(FormatLoop(<<Header>>, ds, 0, msgs))

MaxBlocks == 2

\* outcomes as getCommitDiffs returns them: a small diff, a diff cut off at
\* the budget, an invalid id
FormatOutcomes ==
    { [hash |-> HexId,
       content |-> BoundDiff(FilterBinaryFiles(Build(<<"hdr", "two">>))).content,
       truncated |-> FALSE, error |-> <<>>],
      [hash |-> PaddedId,
       content |-> BoundDiff(FilterBinaryFiles(Build(<<"hdr", "big", "mid", "mid">>))).content,
       truncated |-> TRUE, error |-> <<>>],
      [hash |-> OrEmpty(EmptyId), content |-> InvalidPlaceholder, truncated |-> FALSE,
       error |-> <<[kind |-> "invalid-format", about |-> EmptyId]>>] }

FormatMessages == {"feat: add parser", "fix: typo", "undefined"}

\* the arrays of at most n elements of S
ArraysUpTo(S, n) == UNION {[1..m -> S] : m \in 0..n}

AInit ==
    /\ aDiffs \in ArraysUpTo(FormatOutcomes, MaxBlocks)
    /\ aMessages \in ArraysUpTo(FormatMessages, MaxBlocks)
    /\ index = 0 /\ formatted = <<>> /\ apc = "entry" /\ aRet = <<>>
    /\ TruncIdle /\ FilterIdle /\ CollectIdle /\ CliIdle
    /\ DescribeIdle /\ GhIdle

\* update.js:166
FormatStart ==
    /\ apc = "entry"
    /\ formatted' = <<Header>>
    /\ index' = 0
    /\ apc' = "forEach"
    /\ UNCHANGED <<aDiffs, aMessages, aRet>>
    /\ UNCHANGED <<tvars, fvars, cvars, uvars, dvars, gvars>>

\* update.js:168-176: the callback for aDiffs[index]
FormatNext ==
    /\ apc = "forEach" /\ index < Len(aDiffs)
    /\ formatted' = formatted \o FormatBlock(aDiffs[index + 1], index, aMessages)
    /\ index' = index + 1
    /\ UNCHANGED <<aDiffs, aMessages, apc, aRet>>
    /\ UNCHANGED <<tvars, fvars, cvars, uvars, dvars, gvars>>

\* update.js:178
FormatDone ==
    /\ apc = "forEach" /\ index >= Len(aDiffs)
    /\ aRet' = <<FormatReturn(formatted)>>
    /\ apc' = "returned"
    /\ UNCHANGED <<aDiffs, aMessages, index, formatted>>
    /\ UNCHANGED <<tvars, fvars, cvars, uvars, dvars, gvars>>

ANext == FormatStart \/ FormatNext \/ FormatDone

SpecFormat == AInit /\ [][ANext]_vars

(***************************************************************************)
(* main, cli.js:33-203: from the command line to the call of               *)
(* getCommitDiffs                                                          *)
(***************************************************************************)
\* a command-line argument: `-` followed by one-letter flags, or `--` and a name
Short(letters) == [dashes |-> 1, names |-> letters]
Long(name) == [dashes |-> 2, names |-> <<name>>]

\* cli.js:39-73: the aliases declared with .option
Canonical(name) ==
    CASE name = "c" -> "copy"
      [] name = "g" -> "github"
      [] name = "r" -> "read"
      [] OTHER -> name

\* cli.js:38-73: the keys yargs reports as true for boolean flags; a group of
\* letters after one dash sets each of its letters
ParseArgs(args) ==
    UNION {{Canonical(args[j].names[q]) : q \in 1..Len(args[j].names)} :
              j \in 1..Len(args)}

MaxArgs == 2

ArgTokens == {Short(<<"r">>), Long("read"), Short(<<"r", "m", "d">>),
              Short(<<"c">>), Long("refill")}

ArgLists == ArraysUpTo(ArgTokens, MaxArgs)

MaxHistory == 2

\* a commit as `git log` lists it: its subject line and its full hash
Commits == {[subject |-> "feat: add parser", hash |-> HexId],
            [subject |-> "", hash |-> HexId]}

Histories == ArraysUpTo(Commits, MaxHistory)

NonEmptyText(t) == t # ""
Subjects(commits) == [j \in 1..Len(commits) |-> commits[j].subject]
Hashes(commits) == [j \in 1..Len(commits) |-> commits[j].hash]

\* git.js:260-321: getCommitHistory(count, options) when the git commands
\* succeed; filter(Boolean) drops the empty lines of the log
GetCommitHistory(commits, options) ==
    [isArray |-> ~options.readDiffs,
     messages |-> SelectSeq(Subjects(commits), NonEmptyText),
     hashes |-> IF options.readDiffs THEN Hashes(commits) ELSE <<>>]

\* git.js:322-327: getCommitHistory when a git command fails
HistoryFailed(options) ==
    [isArray |-> ~options.readDiffs, messages |-> <<>>, hashes |-> <<>>]

\* cli.js:75-78
ReadOptions(parsed) ==
    [readDiffs |-> "read" \in parsed, includeMergeDiffs |-> FALSE]

\* cli.js:82-87, 122-127, 140-145, 178-183
SetHistory(res) ==
    /\ commitMessages' = res.messages
    /\ cliHashes' = IF res.isArray THEN <<>> ELSE res.hashes

\* cli.js:195-197: the arguments of the call of getCommitDiffs
DiffsCall(hashes) ==
    [commitHashes |-> hashes, options |-> [includeMergeDiffs |-> FALSE]]

UInit ==
    /\ processArgv \in ArgLists
    /\ history \in Histories
    /\ argv = {} /\ readOptions = <<>> /\ commitMessages = <<>> /\ cliHashes = <<>>
    /\ cliCall = <<>> /\ upc = "start"
    /\ TruncIdle /\ FilterIdle /\ CollectIdle /\ FormatIdle
    /\ DescribeIdle /\ GhIdle

\* cli.js:38-73
CliParse ==
    /\ upc = "start"
    /\ argv' = ParseArgs(processArgv)
    /\ upc' = "parsed"
    /\ UNCHANGED <<processArgv, history, readOptions, commitMessages, cliHashes, cliCall>>
    /\ UNCHANGED <<tvars, fvars, cvars, avars, dvars, gvars>>

\* cli.js:75-87: the first call of getCommitHistory
CliGetHistory ==
    /\ upc = "parsed"
    /\ readOptions' = <<ReadOptions(argv)>>
    /\ \E res \in {GetCommitHistory(history, ReadOptions(argv)),
                   HistoryFailed(ReadOptions(argv))} : SetHistory(res)
    /\ upc' = "fetched"
    /\ UNCHANGED <<processArgv, history, argv, cliCall>>
    /\ UNCHANGED <<tvars, fvars, cvars, avars, dvars, gvars>>

\* cli.js:89-185: no message; the commits of the branch are counted and read
\* again with getCommitHistory(commitCount, readOptions)
CliFallback ==
    /\ upc = "fetched" /\ Len(commitMessages) = 0
    /\ \E h \in Histories :
          /\ history' = h
          /\ \E res \in {GetCommitHistory(h, readOptions[1]),
                         HistoryFailed(readOptions[1])} : SetHistory(res)
    /\ upc' = "refetched"
    /\ UNCHANGED <<processArgv, argv, readOptions, cliCall>>
    /\ UNCHANGED <<tvars, fvars, cvars, avars, dvars, gvars>>

\* cli.js:131-153, 167-170: main returns from the fallback
CliFallbackExit ==
    /\ upc = "fetched" /\ Len(commitMessages) = 0
    /\ upc' = "exit"
    /\ UNCHANGED <<processArgv, history, argv, readOptions, commitMessages, cliHashes,
                   cliCall>>
    /\ UNCHANGED <<tvars, fvars, cvars, avars, dvars, gvars>>

\* cli.js:186-189
CliNoCommits ==
    /\ upc = "refetched" /\ Len(commitMessages) = 0
    /\ upc' = "exit-no-commits"
    /\ UNCHANGED <<processArgv, history, argv, readOptions, commitMessages, cliHashes,
                   cliCall>>
    /\ UNCHANGED <<tvars, fvars, cvars, avars, dvars, gvars>>

\* cli.js:192-197
CliFetchDiffs ==
    /\ upc \in {"fetched", "refetched"} /\ Len(commitMessages) # 0
    /\ "read" \in argv /\ Len(cliHashes) > 0
    /\ cliCall' = <<DiffsCall(cliHashes)>>
    /\ upc' = "prompt"
    /\ UNCHANGED <<processArgv, history, argv, readOptions, commitMessages, cliHashes>>
    /\ UNCHANGED <<tvars, fvars, cvars, avars, dvars, gvars>>

\* cli.js:192-193: commitDiffs stays null
CliSkipDiffs ==
    /\ upc \in {"fetched", "refetched"} /\ Len(commitMessages) # 0
    /\ ~("read" \in argv /\ Len(cliHashes) > 0)
    /\ upc' = "prompt"
    /\ UNCHANGED <<processArgv, history, argv, readOptions, commitMessages, cliHashes,
                   cliCall>>
    /\ UNCHANGED <<tvars, fvars, cvars, avars, dvars, gvars>>

UNext == \/ CliParse \/ CliGetHistory \/ CliFallback \/ CliFallbackExit
         \/ CliNoCommits \/ CliFetchDiffs \/ CliSkipDiffs

SpecCli == UInit /\ [][UNext]_vars

(***************************************************************************)
(* main, cli.js:214-282: building the PR description.  A string is the     *)
(* sequence of its tokens here: a white-space character, a code fence     *)
(* (three backquotes) or a run of other characters; trim, startsWith,     *)
(* endsWith and substring work on the tokens as the code's work on the    *)
(* characters.                                                             *)
(***************************************************************************)
\* constants.js:5-17, in the order of the keys
TypeOrder == <<"feat", "fix", "refactor", "chore", "docs", "style", "test", "perf",
               "ci", "build", "revert">>
COMMIT_TYPES ==
    [feat |-> "Features", fix |-> "Bug Fixes", refactor |-> "Refactors",
     chore |-> "Chores", docs |-> "Documentation", style |-> "Styling",
     test |-> "Tests", perf |-> "Performance Improvements", ci |-> "CI/CD",
     build |-> "Build System", revert |-> "Reverts"]

\* a property name every object literal inherits from Object.prototype
InheritedKeys == {"constructor"}
\* the key an inherited member turns into when it is used as a property name
InheritedSection == "function Object() { [native code] }"
OtherChanges == "Other Changes"

\* COMMIT_TYPES[type], update.js:134: <<>> models undefined
SectionOf(type) ==
    IF type \in DOMAIN COMMIT_TYPES THEN <<COMMIT_TYPES[type]>>
    ELSE IF type \in InheritedKeys THEN <<InheritedSection>>
    ELSE <<>>

SectionKeys ==
    {COMMIT_TYPES[t] : t \in DOMAIN COMMIT_TYPES} \cup {OtherChanges, InheritedSection}

\* message.match(/^(\w+)(\(.+\))?: (.+)$/), update.js:131: a message that
\* matches is the tokens <<type, ": ", description>>
MatchesConventional(m) == Len(m) = 3 /\ m[2] = ": "

\* update.js:129, an object with no own property: <<>> models undefined
NoCategories == [k \in SectionKeys |-> <<>>]

\* update.js:131-155, one iteration
CategorizeOne(cat, m) ==
    IF MatchesConventional(m) /\ SectionOf(m[1]) # <<>>
    THEN [cat EXCEPT ![SectionOf(m[1])[1]] = Append(@, <<"- ", m[3]>>)]
    ELSE [cat EXCEPT ![OtherChanges] = Append(@, <<"- ">> \o m)]

RECURSIVE CategorizeFrom(_, _, _)
CategorizeFrom(cat, messages, j) ==
    IF j > Len(messages) THEN cat
    ELSE CategorizeFrom(CategorizeOne(cat, messages[j]), messages, j + 1)

\* update.js:128-157
CategorizeCommits(messages) == CategorizeFrom(NoCategories, messages, 1)

RECURSIVE JoinLines(_)
\* Array.prototype.join("\n") on an array of strings
JoinLines(ls) ==
    IF ls = <<>> THEN <<>>
    ELSE IF Len(ls) = 1 THEN ls[1]
    ELSE ls[1] \o <<"\n">> \o JoinLines(Tail(ls))

\* a value that an `if` takes for true: not null and not the empty string
Truthy(v) == v # <<>> /\ v[1] # <<>>

\* pr.js:106-113 and 116-122: the section of one title
SectionText(cat, title) ==
    IF Len(cat[title]) > 0
    THEN <<"### ", title, "\n", "\n">> \o JoinLines(cat[title]) \o <<"\n", "\n">>
    ELSE <<>>

RECURSIVE TypeSections(_, _)
\* pr.js:104-114: for (const section in COMMIT_TYPES)
TypeSections(cat, k) ==
    IF k > Len(TypeOrder) THEN <<>>
    ELSE SectionText(cat, COMMIT_TYPES[TypeOrder[k]]) \o TypeSections(cat, k + 1)

\* pr.js:97-124
GeneratePRDescription(cat, template) ==
    Trim((IF Truthy(template) THEN template[1] \o <<"\n", "\n", "---", "\n", "\n">>
          ELSE <<>>)
         \o TypeSections(cat, 1) \o SectionText(cat, OtherChanges))

StartsWith(text, prefix) ==
    Len(text) >= Len(prefix) /\ SubSeq(text, 1, Len(prefix)) = prefix
EndsWith(text, suffix) ==
    Len(text) >= Len(suffix)
    /\ SubSeq(text, Len(text) - Len(suffix) + 1, Len(text)) = suffix

\* String.prototype.substring(a, b): the arguments are swapped when a > b
Substring(text, a, b) ==
    LET lo == IF a < b THEN a ELSE b
        hi == IF a < b THEN b ELSE a
    IN SubSeq(text, lo + 1, hi)

\* the three backquotes of a code fence
FenceToken == "[fence]"
ErrorMarker == "<!-- Error: AI content generation failed."

\* part_001:189-205: the text of the response, trimmed and taken out of its
\* code fence
Unfenced(responseText) ==
    LET generatedText == Trim(responseText) IN
    IF StartsWith(generatedText, <<FenceToken, "markdown">>)
          /\ EndsWith(generatedText, <<FenceToken>>)
    THEN Trim(Substring(generatedText, 2, Len(generatedText) - 1))
    ELSE IF StartsWith(generatedText, <<FenceToken>>)
              /\ EndsWith(generatedText, <<FenceToken>>)
    THEN Trim(Substring(generatedText, 1, Len(generatedText) - 1))
    ELSE generatedText

\* part_001:220: what generateAIContent returns when the call was rejected
AiErrorText(message, template) ==
    <<ErrorMarker, " Please review and fill manually. Details: ", message, " -->",
      "\n", "\n">> \o template

\* part_001:129-132: GEMINI_API_KEY is not set
AiSkippedText == <<>>

MaxMessages == 2

MessageCandidates ==
    { <<"feat", ": ", "add parser">>,
      <<"update readme">>,
      <<"wip", ": ", "try things">>,
      <<"constructor", ": ", "inject the clock">> }

\* main is past cli.js:186-189: there is at least one commit message
MessageLists == ArraysUpTo(MessageCandidates, MaxMessages) \ {<<>>}

\* what chooseTemplate can resolve to (pr.js:55-88): null, or the text of a
\* template file, which may be empty or blank
TemplateChoices ==
    { <<>>, <<<<>>>>, <<<<" ">>>>, <<<<"## Summary", "\n", "<!-- what changed -->">>>> }

\* what the model can answer
AiAnswers ==
    { <<"## Summary", "\n", "- adds a parser">>,
      <<" ", "\n">>,
      <<FenceToken, "markdown", "\n", "## Summary", "\n", FenceToken>>,
      <<FenceToken, "\n", "## Summary", "\n", FenceToken, "\n">>,
      <<FenceToken>>,
      <<ErrorMarker, " -->">> }

AiErrors == {"fetch failed"}

DInit ==
    /\ descMessages \in MessageLists
    /\ geminiApiKey \in BOOLEAN
    /\ categorized = <<>> /\ templateContent = <<>> /\ aiGeneratedContent = <<>>
    /\ aiOutcome = "none" /\ prDescription = <<>> /\ dpc = "start"
    /\ TruncIdle /\ FilterIdle /\ CollectIdle /\ FormatIdle /\ CliIdle
    /\ GhIdle

\* cli.js:214
DescribeCategorize ==
    /\ dpc = "start"
    /\ categorized' = <<CategorizeCommits(descMessages)>>
    /\ dpc' = "categorized"
    /\ UNCHANGED <<descMessages, geminiApiKey, templateContent, aiGeneratedContent,
                   aiOutcome, prDescription>>
    /\ UNCHANGED <<tvars, fvars, cvars, avars, uvars, gvars>>

\* cli.js:216-220
DescribeChooseTemplate ==
    /\ dpc = "categorized"
    /\ templateContent' \in TemplateChoices
    /\ dpc' = "template"
    /\ UNCHANGED <<descMessages, geminiApiKey, categorized, aiGeneratedContent,
                   aiOutcome, prDescription>>
    /\ UNCHANGED <<tvars, fvars, cvars, avars, uvars, gvars>>

\* cli.js:261-269 and part_001:129-132: no key, generateAIContent returns ""
AiSkipped ==
    /\ dpc = "template" /\ Truthy(templateContent)
    /\ ~geminiApiKey
    /\ aiGeneratedContent' = <<AiSkippedText>>
    /\ aiOutcome' = "no-key"
    /\ dpc' = "generated"
    /\ UNCHANGED <<descMessages, geminiApiKey, categorized, templateContent,
                   prDescription>>
    /\ UNCHANGED <<tvars, fvars, cvars, avars, uvars, gvars>>

\* cli.js:261-269 and part_001:134-188: the prompt is sent to the model
AiCall ==
    /\ dpc = "template" /\ Truthy(templateContent)
    /\ geminiApiKey
    /\ dpc' = "generating"
    /\ UNCHANGED <<descMessages, geminiApiKey, categorized, templateContent,
                   aiGeneratedContent, aiOutcome, prDescription>>
    /\ UNCHANGED <<tvars, fvars, cvars, avars, uvars, gvars>>

\* part_001:188-205: the model answered
AiAnswered ==
    /\ dpc = "generating"
    /\ \E text \in AiAnswers : aiGeneratedContent' = <<Unfenced(text)>>
    /\ aiOutcome' = "answered"
    /\ dpc' = "generated"
    /\ UNCHANGED <<descMessages, geminiApiKey, categorized, templateContent,
                   prDescription>>
    /\ UNCHANGED <<tvars, fvars, cvars, avars, uvars, gvars>>

\* part_001:206-221: the call was rejected
AiFailed ==
    /\ dpc = "generating"
    /\ \E message \in AiErrors :
          aiGeneratedContent' = <<AiErrorText(message, templateContent[1])>>
    /\ aiOutcome' = "failed"
    /\ dpc' = "generated"
    /\ UNCHANGED <<descMessages, geminiApiKey, categorized, templateContent,
                   prDescription>>
    /\ UNCHANGED <<tvars, fvars, cvars, avars, uvars, gvars>>

\* cli.js:270-273: the content does not start with the error comment
DescribeFromAI ==
    /\ dpc = "generated"
    /\ ~StartsWith(aiGeneratedContent[1], <<ErrorMarker>>)
    /\ prDescription' = aiGeneratedContent
    /\ dpc' = "described"
    /\ UNCHANGED <<descMessages, geminiApiKey, categorized, templateContent,
                   aiGeneratedContent, aiOutcome>>
    /\ UNCHANGED <<tvars, fvars, cvars, avars, uvars, gvars>>

\* cli.js:270-278: the content starts with the error comment
DescribeFallback ==
    /\ dpc = "generated"
    /\ StartsWith(aiGeneratedContent[1], <<ErrorMarker>>)
    /\ prDescription' = <<GeneratePRDescription(categorized[1], templateContent)>>
    /\ dpc' = "described"
    /\ UNCHANGED <<descMessages, geminiApiKey, categorized, templateContent,
                   aiGeneratedContent, aiOutcome>>
    /\ UNCHANGED <<tvars, fvars, cvars, avars, uvars, gvars>>

\* cli.js:279-281: no template
DescribeFromCommits ==
    /\ dpc = "template" /\ ~Truthy(templateContent)
    /\ prDescription' = <<GeneratePRDescription(categorized[1], templateContent)>>
    /\ dpc' = "described"
    /\ UNCHANGED <<descMessages, geminiApiKey, categorized, templateContent,
                   aiGeneratedContent, aiOutcome>>
    /\ UNCHANGED <<tvars, fvars, cvars, avars, uvars, gvars>>

DNext == \/ DescribeCategorize \/ DescribeChooseTemplate \/ AiSkipped \/ AiCall
         \/ AiAnswered \/ AiFailed \/ DescribeFromAI \/ DescribeFallback
         \/ DescribeFromCommits

SpecDescribe == DInit /\ [][DNext]_vars

(***************************************************************************)
(* createGitHubPRWithCLI, helpers.js:151-306: one action per awaited call  *)
(***************************************************************************)
\* what `gh pr view <branch> --json url --jq .url` can print, trimmed
PrViewOutputs == {"", "https://github.com/o/r/pull/7"}

GhDescriptions == {<<"## Summary", "\n", "- adds a parser">>, <<>>}

\* PR_BODY.md before the call: absent, or a file of the user's
BodyFilesBefore == {<<>>, <<<<"notes of the user">>>>}

\* the call moves to the control point next; the step is recorded
GhStep(name, next) == ghPath' = Append(ghPath, name) /\ gpc' = next

\* fs.writeFile(tempFilePath, prDescription) resolved, helpers.js:198, 285
Written == prBodyFile' = <<ghDescription>> /\ tempWritten' = TRUE
\* fs.unlink(tempFilePath) resolved, helpers.js:208, 226, 298
Unlinked == prBodyFile' = <<>> /\ UNCHANGED unlinkFailed
\* fs.unlink(tempFilePath) was rejected
UnlinkRejected == unlinkFailed' = TRUE /\ UNCHANGED prBodyFile

GInit ==
    /\ ghArgv \in [refill : BOOLEAN]
    /\ ghDescription \in GhDescriptions
    /\ prBodyFile \in BodyFilesBefore
    /\ existingPr = <<>> /\ tempWritten = FALSE /\ unlinkFailed = FALSE
    /\ ghPath = <<>> /\ gpc = "version"
    /\ TruncIdle /\ FilterIdle /\ CollectIdle /\ FormatIdle /\ CliIdle /\ DescribeIdle

\* helpers.js:159-160
GhVersionOk ==
    /\ gpc = "version"
    /\ GhStep("gh --version", "view")
    /\ UNCHANGED <<ghArgv, ghDescription, prBodyFile, existingPr, tempWritten, unlinkFailed>>
    /\ UNCHANGED <<tvars, fvars, cvars, avars, uvars, dvars>>

\* helpers.js:159 and 300-305: gh is missing, the outer catch
GhVersionFailed ==
    /\ gpc = "version"
    /\ GhStep("gh --version failed", "returned")
    /\ UNCHANGED <<ghArgv, ghDescription, prBodyFile, existingPr, tempWritten, unlinkFailed>>
    /\ UNCHANGED <<tvars, fvars, cvars, avars, uvars, dvars>>

\* helpers.js:163-190: the lookup of an existing PR answered
GhViewAnswered ==
    /\ gpc = "view"
    /\ \E out \in PrViewOutputs :
          /\ existingPr' = <<out>>
          /\ GhStep("gh pr view", IF out = "" THEN "upstream"
                                  ELSE IF ghArgv.refill THEN "write-edit"
                                  ELSE "confirm-overwrite")
    /\ UNCHANGED <<ghArgv, ghDescription, prBodyFile, tempWritten, unlinkFailed>>
    /\ UNCHANGED <<tvars, fvars, cvars, avars, uvars, dvars>>

\* helpers.js:163-167 and 232-246: the lookup failed, a new PR is attempted
GhViewFailed ==
    /\ gpc = "view"
    /\ GhStep("gh pr view failed", "upstream")
    /\ UNCHANGED <<ghArgv, ghDescription, prBodyFile, existingPr, tempWritten, unlinkFailed>>
    /\ UNCHANGED <<tvars, fvars, cvars, avars, uvars, dvars>>

\* helpers.js:175-195: the answer to the overwrite prompt
GhOverwriteAnswered ==
    /\ gpc = "confirm-overwrite"
    /\ \E overwritePr \in BOOLEAN :
          GhStep(IF overwritePr THEN "overwrite" ELSE "keep",
                 IF overwritePr THEN "write-edit" ELSE "returned")
    /\ UNCHANGED <<ghArgv, ghDescription, prBodyFile, existingPr, tempWritten, unlinkFailed>>
    /\ UNCHANGED <<tvars, fvars, cvars, avars, uvars, dvars>>

\* helpers.js:197-200: the body file is written for `gh pr edit`
GhWriteForEdit ==
    /\ gpc = "write-edit"
    /\ Written
    /\ GhStep("writeFile", "edit")
    /\ UNCHANGED <<ghArgv, ghDescription, existingPr, unlinkFailed>>
    /\ UNCHANGED <<tvars, fvars, cvars, avars, uvars, dvars>>

\* helpers.js:198 and 232-246: writing is rejected inside the try of the
\* lookup, a new PR is attempted
GhWriteForEditFailed ==
    /\ gpc = "write-edit"
    /\ GhStep("writeFile failed", "upstream")
    /\ UNCHANGED <<ghArgv, ghDescription, prBodyFile, existingPr, tempWritten, unlinkFailed>>
    /\ UNCHANGED <<tvars, fvars, cvars, avars, uvars, dvars>>

\* helpers.js:202-206: `gh pr edit` succeeded
GhEditOk ==
    /\ gpc = "edit"
    /\ GhStep("gh pr edit", "unlink-edit")
    /\ UNCHANGED <<ghArgv, ghDescription, prBodyFile, existingPr, tempWritten, unlinkFailed>>
    /\ UNCHANGED <<tvars, fvars, cvars, avars, uvars, dvars>>

\* helpers.js:211-223: `gh pr edit` failed
GhEditFailed ==
    /\ gpc = "edit"
    /\ GhStep("gh pr edit failed", "unlink-catch")
    /\ UNCHANGED <<ghArgv, ghDescription, prBodyFile, existingPr, tempWritten, unlinkFailed>>
    /\ UNCHANGED <<tvars, fvars, cvars, avars, uvars, dvars>>

\* helpers.js:208-210
GhUnlinkAfterEdit ==
    /\ gpc = "unlink-edit"
    /\ Unlinked
    /\ GhStep("unlink", "returned")
    /\ UNCHANGED <<ghArgv, ghDescription, existingPr, tempWritten>>
    /\ UNCHANGED <<tvars, fvars, cvars, avars, uvars, dvars>>

\* helpers.js:208 and 211: the removal is rejected and caught as an edit error
GhUnlinkAfterEditFailed ==
    /\ gpc = "unlink-edit"
    /\ UnlinkRejected
    /\ GhStep("unlink failed", "unlink-catch")
    /\ UNCHANGED <<ghArgv, ghDescription, existingPr, tempWritten>>
    /\ UNCHANGED <<tvars, fvars, cvars, avars, uvars, dvars>>

\* helpers.js:225-229
GhUnlinkInCatch ==
    /\ gpc = "unlink-catch"
    /\ Unlinked
    /\ GhStep("unlink", "returned")
    /\ UNCHANGED <<ghArgv, ghDescription, existingPr, tempWritten>>
    /\ UNCHANGED <<tvars, fvars, cvars, avars, uvars, dvars>>

\* helpers.js:225-229: the rejection is swallowed
GhUnlinkInCatchFailed ==
    /\ gpc = "unlink-catch"
    /\ UnlinkRejected
    /\ GhStep("unlink failed", "returned")
    /\ UNCHANGED <<ghArgv, ghDescription, existingPr, tempWritten>>
    /\ UNCHANGED <<tvars, fvars, cvars, avars, uvars, dvars>>

\* helpers.js:248-253: the branch has an upstream
GhUpstreamOk ==
    /\ gpc = "upstream"
    /\ GhStep("git rev-parse @{u}", "write-create")
    /\ UNCHANGED <<ghArgv, ghDescription, prBodyFile, existingPr, tempWritten, unlinkFailed>>
    /\ UNCHANGED <<tvars, fvars, cvars, avars, uvars, dvars>>

\* helpers.js:254-263
GhUpstreamFailed ==
    /\ gpc = "upstream"
    /\ GhStep("git rev-parse @{u} failed", "confirm-publish")
    /\ UNCHANGED <<ghArgv, ghDescription, prBodyFile, existingPr, tempWritten, unlinkFailed>>
    /\ UNCHANGED <<tvars, fvars, cvars, avars, uvars, dvars>>

\* helpers.js:265-279: the answer to the publish prompt
GhPublishAnswered ==
    /\ gpc = "confirm-publish"
    /\ \E publishBranch \in BOOLEAN :
          GhStep(IF publishBranch THEN "publish" ELSE "do not publish",
                 IF publishBranch THEN "push" ELSE "returned")
    /\ UNCHANGED <<ghArgv, ghDescription, prBodyFile, existingPr, tempWritten, unlinkFailed>>
    /\ UNCHANGED <<tvars, fvars, cvars, avars, uvars, dvars>>

\* helpers.js:267-271
GhPushOk ==
    /\ gpc = "push"
    /\ GhStep("git push", "write-create")
    /\ UNCHANGED <<ghArgv, ghDescription, prBodyFile, existingPr, tempWritten, unlinkFailed>>
    /\ UNCHANGED <<tvars, fvars, cvars, avars, uvars, dvars>>

\* helpers.js:272-275
GhPushFailed ==
    /\ gpc = "push"
    /\ GhStep("git push failed", "returned")
    /\ UNCHANGED <<ghArgv, ghDescription, prBodyFile, existingPr, tempWritten, unlinkFailed>>
    /\ UNCHANGED <<tvars, fvars, cvars, avars, uvars, dvars>>

\* helpers.js:282-295: the body file is written for `gh pr create`
GhWriteForCreate ==
    /\ gpc = "write-create"
    /\ Written
    /\ GhStep("writeFile", "create")
    /\ UNCHANGED <<ghArgv, ghDescription, existingPr, unlinkFailed>>
    /\ UNCHANGED <<tvars, fvars, cvars, avars, uvars, dvars>>

\* helpers.js:285 and 300-305: writing is rejected, the outer catch
GhWriteForCreateFailed ==
    /\ gpc = "write-create"
    /\ GhStep("writeFile failed", "returned")
    /\ UNCHANGED <<ghArgv, ghDescription, prBodyFile, existingPr, tempWritten, unlinkFailed>>
    /\ UNCHANGED <<tvars, fvars, cvars, avars, uvars, dvars>>

\* helpers.js:295-296: `gh pr create` succeeded
GhCreateOk ==
    /\ gpc = "create"
    /\ GhStep("gh pr create", "unlink-create")
    /\ UNCHANGED <<ghArgv, ghDescription, prBodyFile, existingPr, tempWritten, unlinkFailed>>
    /\ UNCHANGED <<tvars, fvars, cvars, avars, uvars, dvars>>

\* helpers.js:295 and 300-305: `gh pr create` failed, the outer catch
GhCreateFailed ==
    /\ gpc = "create"
    /\ GhStep("gh pr create failed", "returned")
    /\ UNCHANGED <<ghArgv, ghDescription, prBodyFile, existingPr, tempWritten, unlinkFailed>>
    /\ UNCHANGED <<tvars, fvars, cvars, avars, uvars, dvars>>

\* helpers.js:298-300
GhUnlinkAfterCreate ==
    /\ gpc = "unlink-create"
    /\ Unlinked
    /\ GhStep("unlink", "returned")
    /\ UNCHANGED <<ghArgv, ghDescription, existingPr, tempWritten>>
    /\ UNCHANGED <<tvars, fvars, cvars, avars, uvars, dvars>>

\* helpers.js:298 and 300-305: the removal is rejected, the outer catch
GhUnlinkAfterCreateFailed ==
    /\ gpc = "unlink-create"
    /\ UnlinkRejected
    /\ GhStep("unlink failed", "returned")
    /\ UNCHANGED <<ghArgv, ghDescription, existingPr, tempWritten>>
    /\ UNCHANGED <<tvars, fvars, cvars, avars, uvars, dvars>>

GNext == \/ GhVersionOk \/ GhVersionFailed \/ GhViewAnswered \/ GhViewFailed
         \/ GhOverwriteAnswered \/ GhWriteForEdit \/ GhWriteForEditFailed
         \/ GhEditOk \/ GhEditFailed \/ GhUnlinkAfterEdit \/ GhUnlinkAfterEditFailed
         \/ GhUnlinkInCatch \/ GhUnlinkInCatchFailed
         \/ GhUpstreamOk \/ GhUpstreamFailed \/ GhPublishAnswered
         \/ GhPushOk \/ GhPushFailed
         \/ GhWriteForCreate \/ GhWriteForCreateFailed
         \/ GhCreateOk \/ GhCreateFailed
         \/ GhUnlinkAfterCreate \/ GhUnlinkAfterCreateFailed

SpecGh == GInit /\ [][GNext]_vars

(***************************************************************************)
(* Properties of truncateDiff                                              *)
(***************************************************************************)
Returned == tpc = "returned"
Ret == ret[1]

\* the return of git.js:41 was executed: the loop was left before the end
\* of the input
CutoffTaken == Returned /\ lines # <<>> /\ pos <= Len(lines)
\* the return of git.js:55 was executed
EndReached == Returned /\ lines # <<>> /\ pos > Len(lines)

IsNotice(e) == e.k \in {"omit", "trunc"}
Notices == SelectSeq(result, IsNotice)

\* the length of the longest notice among the emitted elements (0 if none)
LongestNotice ==
    IF Notices = <<>> THEN 0
    ELSE CHOOSE x \in {Notices[j].n : j \in 1..Len(Notices)} :
            \A j \in 1..Len(Notices) : Notices[j].n <= x

\* C1: for every diff text longer than maxTotalSize, the text returned by
\* truncateDiff is at most maxTotalSize plus the length of one elision
\* notice long, whatever mix of header lines, body lines and file sections
\* the input contains.
C1_LengthBound ==
    (Returned /\ TextLen(diffContent) > maxSize)
        => TextLen(Ret.content) <= maxSize + LongestNotice

\* C2: for every diff text whose length is at most maxTotalSize, truncateDiff
\* returns the input unchanged with wasTruncated = false, and the collector
\* (git.js:186-194) forwards exactly that text with truncated = false.
C2_SmallUnchanged ==
    /\ (Returned /\ TextLen(diffContent) <= maxSize)
          => (Ret.content = diffContent /\ Ret.wasTruncated = FALSE)
    /\ (bounded # <<>> /\ TextLen(diffContent) <= MAX_DIFF_SIZE)
          => bounded[1] = [content |-> diffContent, truncated |-> FALSE]

C2_Witness ==
    /\ Returned /\ bounded # <<>>
    /\ TextLen(diffContent) = maxSize
    /\ Len(diffContent) > maxLinesPerFile

NotStructural(line) == ~IsStructural(line)
HeaderLines(d) == SelectSeq(d, IsStructural)
BodyLines(d) == SelectSeq(d, NotStructural)

\* the scenario of C3: a 20000-character diff of one file: structural lines
\* with a single `diff --git` header first, then 100 body lines
Scenario20000 ==
    /\ maxSize = MAX_DIFF_SIZE
    /\ TextLen(diffContent) = 20000
    /\ StartsWithDiffGit(diffContent[1])
    /\ Cardinality({j \in 1..Len(diffContent) : StartsWithDiffGit(diffContent[j])}) = 1
    /\ Len(BodyLines(diffContent)) = 100
    /\ diffContent = HeaderLines(diffContent) \o BodyLines(diffContent)
    /\ \A j \in 1..Len(diffContent) : diffContent[j].k \in {"git", "index", "minus", "plus", "body"}

\* C3 as stated: the scenario yields the header lines, the first 40 body
\* lines, one "... (60 more lines omitted)" notice, then a global truncation
\* notice, with wasTruncated = true.
C3_Original ==
    (Returned /\ Scenario20000) =>
        LET h == HeaderLines(diffContent)
            b == BodyLines(diffContent)
        IN /\ Len(result) = Len(h) + maxLinesPerFile + 2
           /\ SubSeq(result, 1, Len(h) + maxLinesPerFile) = h \o SubSeq(b, 1, maxLinesPerFile)
           /\ result[Len(result) - 1] = OmitNotice(60)
           /\ result[Len(result)].k = "trunc"
           /\ Ret.wasTruncated = TRUE

\* C3 (amended): the scenario yields the header lines, then the first k <= 40
\* body lines, then exactly one notice as the last element: the global
\* truncation notice with wasTruncated = true, or, when no body line crosses
\* the budget, k = 40 and the "... (60 more lines omitted)" notice with
\* wasTruncated = false.  The two notices never appear together.
C3_Amended ==
    (Returned /\ Scenario20000) =>
        LET h == HeaderLines(diffContent)
            b == BodyLines(diffContent)
            k == Len(result) - Len(h) - 1
            last == result[Len(result)]
        IN /\ k \in 0..maxLinesPerFile
           /\ SubSeq(result, 1, Len(h) + k) = h \o SubSeq(b, 1, k)
           /\ Len(Notices) = 1
           /\ \/ last.k = "trunc" /\ Ret.wasTruncated = TRUE
              \/ last = OmitNotice(60) /\ k = maxLinesPerFile /\ Ret.wasTruncated = FALSE
           /\ Ret.content = JoinText(result)

C3_Witness ==
    /\ Returned /\ Scenario20000
    /\ Ret.wasTruncated
    /\ result[Len(result)].k = "trunc"

\* C4: truncateDiff returns wasTruncated = true exactly when the global
\* cutoff path was taken; reaching the end of the input, even with lines
\* dropped by the per-file cap and notices inserted, gives false; and the
\* truncated flag computed by getCommitDiffs (git.js:186-194) is that value.
C4_TruncatedIffCutoff ==
    /\ Returned => (Ret.wasTruncated <=> CutoffTaken)
    /\ (EndReached /\ Notices # <<>>) => Ret.wasTruncated = FALSE
    /\ (bounded # <<>> /\ maxSize = MAX_DIFF_SIZE)
          => (bounded[1].truncated <=> CutoffTaken)

C4_Witness ==
    /\ EndReached /\ bounded # <<>> /\ maxSize = MAX_DIFF_SIZE
    /\ \E j \in 1..Len(result) : result[j].k = "omit"
    /\ Len(result) < Len(lines)

(***************************************************************************)
(* Properties of getCommitDiffs                                            *)
(***************************************************************************)
Collecting == cpc \in {"loop", "parents", "classified", "show"}
Done == cpc = "done" /\ isArray /\ commitHashes # <<>>

IsErrorOutcome(o) == o.error # <<>>
IsPlaceholder(o) == o.content \in {InvalidPlaceholder, MergePlaceholder, ErrorPlaceholder}

\* the outcome o was produced for the id h
Corresponds(o, h) ==
    IF IsValidCommitHash(h)
    THEN o.hash = h /\ (IsErrorOutcome(o) => o.error[1].about = h)
    ELSE o.error = <<[kind |-> "invalid-format", about |-> h]>>

\* C5: getCommitDiffs returns exactly one outcome per input id, with no drops
\* and no duplicates, and the i-th outcome corresponds to the i-th input id,
\* for every mix of valid, invalid, merge and failing ids and either value
\* of includeMergeDiffs.
C5_OneOutcomePerId ==
    /\ Collecting => Len(diffs) = i - 1
    /\ Done => (returned[1] = diffs /\ Len(returned[1]) = Len(commitHashes))
    /\ \A j \in 1..Len(diffs) : Corresponds(diffs[j], commitHashes[j])

C5_Witness ==
    /\ Done
    /\ Len(returned[1]) >= 2
    /\ \E j \in 1..Len(diffs) : ~IsValidCommitHash(commitHashes[j])
    /\ \E j \in 1..Len(diffs) : ~IsPlaceholder(diffs[j])

\* the number of white-space separated tokens of a sequence of characters:
\* the positions where a token starts
WordCount(cs) ==
    Cardinality({j \in 1..Len(cs) :
                    cs[j] \notin WhiteSpace /\ (j = 1 \/ cs[j - 1] \in WhiteSpace)})

\* the answers recorded for an id classify it as a merge: the parent lookup
\* succeeded and printed more than two tokens (the commit and two parents)
AnsweredMerge(e) ==
    /\ e.parents # <<>>
    /\ e.parents[1].ok
    /\ WordCount(e.parents[1].out) > 2

\* what is forwarded for each text the diff fetch can answer: the text
\* sanitised, then bounded
Forwarded == [s \in DOMAIN FetchTexts |-> BoundDiff(FilterBinaryFiles(FetchTexts[s]))]

\* the outcome of one id as a function of that id, of includeMergeDiffs and
\* of what the collaborators answered for that id alone
ExpectedOutcome(h, e) ==
    IF ~IsValidCommitHash(h)
    THEN [hash |-> OrEmpty(h), content |-> InvalidPlaceholder, truncated |-> FALSE,
          error |-> <<[kind |-> "invalid-format", about |-> h]>>]
    ELSE IF AnsweredMerge(e) /\ ~includeMergeDiffs
    THEN [hash |-> h, content |-> MergePlaceholder, truncated |-> FALSE, error |-> <<>>]
    ELSE IF ~e.show[1].ok
    THEN [hash |-> h, content |-> ErrorPlaceholder, truncated |-> FALSE,
          error |-> <<[kind |-> "command-failed", about |-> h]>>]
    ELSE LET b == Forwarded[e.show[1].out]
         IN [hash |-> h, content |-> b.content, truncated |-> b.truncated, error |-> <<>>]

NumErrors == Cardinality({j \in 1..Len(diffs) : IsErrorOutcome(diffs[j])})

\* C6: a per-revision failure never aborts the batch: a malformed id or a
\* failed diff fetch gives an error outcome for that id and increments
\* skipped and failed, every later id is still processed, and each outcome is
\* what its own id and its own answers determine, whatever failed before it.
C6_FailureDoesNotAbort ==
    /\ Done => Len(returned[1]) = Len(commitHashes)
    /\ Collecting \/ Done => (skippedCount = NumErrors /\ fetchFailures = NumErrors)
    /\ \A j \in 1..Len(diffs) :
          /\ diffs[j] = ExpectedOutcome(commitHashes[j], envlog[j])
          /\ (~IsValidCommitHash(commitHashes[j]) \/
                (envlog[j].show # <<>> /\ ~envlog[j].show[1].ok))
                => IsErrorOutcome(diffs[j])

C6_Witness ==
    /\ Done
    /\ Len(diffs) >= 2
    /\ IsErrorOutcome(diffs[1])
    /\ envlog[1].show # <<>>
    /\ ~IsPlaceholder(diffs[2])

\* C7: a revision classified as a merge while includeMergeDiffs is false gets
\* the outcome "[Merge commit - diff excluded]" with error = null and
\* truncated = false, is counted in valid and in mergeExcluded, and adds
\* nothing to totalSize.
C7_MergeExcluded ==
    [][(cpc = "classified" /\ AnsweredMerge(envlog[i]) /\ ~includeMergeDiffs)
         => /\ diffs' = Append(diffs, [hash |-> commitHashes[i],
                                        content |-> MergePlaceholder,
                                        truncated |-> FALSE,
                                        error |-> <<>>])
            /\ validCount' = validCount + 1
            /\ mergeCommitsExcluded' = mergeCommitsExcluded + 1
            /\ totalSize' = totalSize
            /\ skippedCount' = skippedCount]_vars

C7_Witness ==
    /\ cpc = "loop" /\ ~includeMergeDiffs
    /\ diffs # <<>>
    /\ AnsweredMerge(envlog[Len(diffs)])
    /\ diffs[Len(diffs)].content = MergePlaceholder
    /\ mergeCommitsExcluded >= 1

\* C8: every revision id passed to an external git command (the parent lookup
\* or the diff fetch) itself matches the case-insensitive hexadecimal pattern
\* of length 7 to 40; no other string, such as one with surrounding
\* whitespace, is passed to a collaborator.
C8_OnlyHexPassed ==
    pending # <<>> => (pending[1].arg.str /\ MatchesHash(pending[1].arg.chars))

RECURSIVE ForwardedSize(_)
\* the sum of the text lengths of the outcomes with error = null that are
\* not merge-excluded placeholders
ForwardedSize(ds) ==
    IF ds = <<>> THEN 0
    ELSE (IF ~IsErrorOutcome(Head(ds)) /\ Head(ds).content # MergePlaceholder
          THEN TextLen(Head(ds).content) ELSE 0) + ForwardedSize(Tail(ds))

\* C10: after every iteration of the collection loop and at its end,
\* totalSize is the sum of the text lengths of the outcomes appended so far
\* that have error = null and are not merge-excluded placeholders.
C10_TotalSize ==
    (Collecting \/ Done) => totalSize = ForwardedSize(diffs)

C10_Witness ==
    /\ Done
    /\ \E j \in 1..Len(diffs) : diffs[j].truncated
    /\ \E j \in 1..Len(diffs) : IsPlaceholder(diffs[j])
    /\ totalSize > 0

\* C11: after every iteration of the collection loop, valid + skipped is the
\* number of outcomes appended so far, and one iteration increments exactly
\* one of the two counters, by one.
C11_CountersPartition ==
    /\ (Collecting \/ Done) => validCount + skippedCount = Len(diffs)
    /\ (Collecting \/ Done) =>
          /\ validCount = Cardinality({j \in 1..Len(diffs) : ~IsErrorOutcome(diffs[j])})
          /\ skippedCount = Cardinality({j \in 1..Len(diffs) : IsErrorOutcome(diffs[j])})
    /\ cpc = "loop" => validCount + skippedCount = i - 1

C11_Witness ==
    /\ Done
    /\ validCount >= 1
    /\ skippedCount >= 1
    /\ \E j \in 1..Len(diffs) : diffs[j].content = ErrorPlaceholder
    /\ \E j \in 1..Len(diffs) : diffs[j].content = MergePlaceholder

\* C12: in every outcome of getCommitDiffs, error # null implies that the
\* text is "[Invalid commit hash - skipped]" or "[Error fetching diff]" and
\* that truncated is false: an outcome with an error never carries diff text.
C12_ErrorMeansPlaceholder ==
    /\ \A j \in 1..Len(diffs) :
          IsErrorOutcome(diffs[j]) =>
              /\ diffs[j].content \in {InvalidPlaceholder, ErrorPlaceholder}
              /\ diffs[j].truncated = FALSE
    /\ Done => returned[1] = diffs

C12_Witness ==
    /\ Done
    /\ \E j \in 1..Len(diffs) :
          IsErrorOutcome(diffs[j]) /\ diffs[j].content = InvalidPlaceholder
    /\ \E j \in 1..Len(diffs) :
          IsErrorOutcome(diffs[j]) /\ diffs[j].content = ErrorPlaceholder

\* the parent lookup for the j-th id failed
LookupFailed(e) == e.parents # <<>> /\ ~e.parents[1].ok

\* C13: isMergeCommit returns true exactly when the parent lookup succeeds and
\* prints more than two white-space separated tokens.  A failed lookup gives
\* false, appends no outcome of its own and does not stop the batch: the
\* revision goes on to the diff fetch of a non-merge, its outcome has an
\* error only if that fetch fails, and every id still gets its outcome.
C13_MergeFailOpen ==
    /\ cpc = "classified" =>
          /\ isMerge = AnsweredMerge(envlog[i])
          /\ Len(diffs) = i - 1
          /\ validCount + skippedCount = i - 1
    /\ (cpc = "show" /\ LookupFailed(envlog[i])) =>
          pending[1] = [cmd |-> "git show --format= --no-color", arg |-> commitHashes[i]]
    /\ \A j \in 1..Len(diffs) :
          LookupFailed(envlog[j]) =>
              /\ envlog[j].show # <<>>
              /\ IsErrorOutcome(diffs[j]) <=> ~envlog[j].show[1].ok
              /\ envlog[j].show[1].ok =>
                    diffs[j] = [hash |-> commitHashes[j],
                                content |-> Forwarded[envlog[j].show[1].out].content,
                                truncated |-> Forwarded[envlog[j].show[1].out].truncated,
                                error |-> <<>>]
    /\ Done => Len(returned[1]) = Len(commitHashes)

C13_Witness ==
    /\ Done
    /\ Len(diffs) >= 2
    /\ LookupFailed(envlog[1])
    /\ ~IsErrorOutcome(diffs[1])
    /\ ~includeMergeDiffs
    /\ AnsweredMerge(envlog[2])
    /\ diffs[2].content = MergePlaceholder

(***************************************************************************)
(* Properties of formatDiffsForAI                                          *)
(***************************************************************************)
Formatted == apc = "returned"
Out == aRet[1].value

NumTruncated(n) == Cardinality({j \in 1..n : aDiffs[j].truncated})

\* where the block of the j-th outcome starts in a string that has the
\* header and then one block per outcome
BlockStart(j) == 2 + 3 * (j - 1) + NumTruncated(j - 1)

\* C14: when the outcomes and the messages differ in number, the mismatch is
\* reported to the caller and the result holds no block.
C14_MismatchReported ==
    (Formatted /\ Len(aDiffs) # Len(aMessages)) =>
        /\ aRet[1].kind = "error"
        /\ \A p \in 1..Len(formatted) : formatted[p].k = "header"

\* C15: formatDiffsForAI returns the header, then one block per outcome in
\* input order; the j-th block (counted from 1) carries the ordinal j, the
\* j-th message, the j-th outcome's id and its diff text, and ends with the
\* truncation note exactly when that outcome's truncated flag is true; for
\* zero outcomes the result is the header alone.
C15_OneBlockPerOutcome ==
    Formatted =>
        /\ aRet[1].kind = "string"
        /\ Out = FormatDiffsForAI(aDiffs, aMessages).value
        /\ Out[1] = Header
        /\ Len(Out) = 1 + 3 * Len(aDiffs) + NumTruncated(Len(aDiffs))
        /\ \A j \in 1..Len(aDiffs) :
              LET p == BlockStart(j) IN
              /\ Out[p].k = "commit" /\ Out[p].ord = j
              /\ j <= Len(aMessages) => Out[p].text = aMessages[j]
              /\ Out[p + 1].k = "hash" /\ Out[p + 1].id = aDiffs[j].hash
              /\ Out[p + 2].k = "fence" /\ Out[p + 2].body = aDiffs[j].content
              /\ aDiffs[j].truncated <=>
                    (p + 3 <= Len(Out) /\ Out[p + 3].k = "note")
        /\ aDiffs = <<>> => Out = <<Header>>

C15_Witness ==
    /\ Formatted
    /\ Len(aDiffs) = 2 /\ Len(aMessages) = 2
    /\ aDiffs[1].truncated /\ ~aDiffs[2].truncated
    /\ aMessages[1] # aMessages[2]
    /\ Len(Out) = 8

(***************************************************************************)
(* Properties of the texts getCommitDiffs returns                          *)
(***************************************************************************)
\* the line q of a text belongs to an elision notice
IsNoticeLine(text, q) ==
    \/ text[q].k \in {"omit", "truncline"}
    \/ q < Len(text) /\ text[q + 1].k = "truncline" /\ text[q] = EmptyLine

\* the body lines a text shows in the file section whose `diff --git` line
\* is at position p: the lines up to the next `diff --git` line that are
\* neither structural markers nor notices
ShownBody(text, p) ==
    {q \in (p + 1)..Len(text) :
        /\ ~IsStructural(text[q])
        /\ ~IsNoticeLine(text, q)
        /\ \A r \in (p + 1)..q : ~StartsWithDiffGit(text[r])}

FetchedOutcome(o) == ~IsErrorOutcome(o) /\ o.content # MergePlaceholder

\* C16: in the text of every outcome of a fetched, non-excluded commit, each
\* file section shows at most 40 body lines, whatever the size of the diff.
C16_PerFileCap ==
    \A j \in 1..Len(diffs) :
        FetchedOutcome(diffs[j]) =>
            \A p \in 1..Len(diffs[j].content) :
                StartsWithDiffGit(diffs[j].content[p])
                    => Cardinality(ShownBody(diffs[j].content, p)) <= maxLinesPerFile

(***************************************************************************)
(* Properties of main                                                      *)
(***************************************************************************)
RmdGiven == \E j \in 1..Len(processArgv) : processArgv[j] = Short(<<"r", "m", "d">>)

\* C17: when the command line has -rmd, getCommitDiffs is called with
\* includeMergeDiffs = true; without -rmd it is called with
\* includeMergeDiffs = false.
C17_RmdIncludesMerges ==
    /\ (upc = "prompt" /\ RmdGiven /\ Len(cliHashes) > 0) =>
          /\ cliCall # <<>>
          /\ cliCall[1].options.includeMergeDiffs = TRUE
    /\ (cliCall # <<>> /\ ~RmdGiven) =>
          cliCall[1].options.includeMergeDiffs = FALSE

(***************************************************************************)
(* Properties of the loop of truncateDiff                                  *)
(***************************************************************************)
IsInputLine(e) == ~IsNotice(e)

\* the size of what was emitted of the input: every emitted input line and
\* its line break (notices are not input lines)
EmittedSize(res) ==
    LET e == SelectSeq(res, IsInputLine) IN SumLen(e, 1, Len(e)) + Len(e)

NoGlobalNotice(res) == \A j \in 1..Len(res) : res[j].k # "trunc"

AtBodyLine == tpc = "loop" /\ pos <= Len(lines) /\ ~IsStructural(lines[pos])

\* C18: on an over-size input, truncateDiff stops at the first body line for
\* which the emitted size plus the line's length exceeds maxTotalSize: the
\* global truncation notice is appended once, as the last element, and
\* nothing is emitted after it; a body line that does not cross the budget
\* never stops the loop; the test does not depend on the per-file count, so
\* a line the per-file cap would drop stops the loop as well.
C18_CutoffStops ==
    [][/\ AtBodyLine =>
            IF EmittedSize(result) + lines[pos].n > maxSize
            THEN /\ tpc' = "returned"
                 /\ NoGlobalNotice(result)
                 /\ Len(result') = Len(result) + 1
                 /\ SubSeq(result', 1, Len(result)) = result
                 /\ result'[Len(result')].k = "trunc"
                 /\ ret'[1].wasTruncated = TRUE
                 /\ ret'[1].content = JoinText(result')
            ELSE /\ tpc' = "loop" /\ pos' = pos + 1
                 /\ NoGlobalNotice(result')
       /\ (tpc = "loop" /\ ~AtBodyLine) => NoGlobalNotice(result')
       /\ tpc = "returned" => (result' = result /\ ret' = ret)]_vars

C18_Witness ==
    /\ CutoffTaken
    /\ linesInCurrentFile > maxLinesPerFile
    /\ result[Len(result)].k = "trunc"
    /\ \A j \in 1..Len(result) : result[j].k # "omit"
    /\ pos < Len(lines)

\* the loop of truncateDiff was entered (the input is over-size)
InLoopOrAfter == tpc \in {"loop", "returned"} /\ lines # <<>>

\* the lines the loop has processed: those before the iterator's position
Processed == SubSeq(lines, 1, pos - 1)

\* the position of the last `diff --git` line processed (0 if none)
LastHeader ==
    LET H == {q \in 1..(pos - 1) : StartsWithDiffGit(lines[q])}
    IN IF H = {} THEN 0 ELSE CHOOSE q \in H : \A r \in H : r <= q

\* the body lines processed since the last `diff --git` line
BodySinceHeader == {q \in (LastHeader + 1)..(pos - 1) : ~IsStructural(lines[q])}

NumOmitNotices(res) == Cardinality({j \in 1..Len(res) : res[j].k = "omit"})

\* the notice due for the file section that is open, as a sequence of
\* elements: one notice with N = B - 40 when the section has B > 40 body
\* lines, nothing otherwise
DueNotice ==
    LET B == Cardinality(BodySinceHeader)
    IN IF B > maxLinesPerFile THEN <<OmitNotice(B - maxLinesPerFile)>> ELSE <<>>

\* C20: a file section that is closed by a following `diff --git` line or by
\* the end of the input gets exactly one notice "... (N more lines omitted)"
\* with N = B - 40 when it had B > 40 body lines, directly after its emitted
\* lines and before the next header, and no notice when B <= 40; no other
\* step of a file section emits such a notice.
C20_PerFileNotice ==
    [][/\ (tpc = "loop" /\ pos <= Len(lines) /\ StartsWithDiffGit(lines[pos])
              /\ LastHeader > 0)
            => result' = result \o DueNotice \o <<lines[pos]>>
       /\ (tpc = "loop" /\ pos > Len(lines) /\ LastHeader > 0)
            => /\ result' = result \o DueNotice
               /\ tpc' = "returned"
               /\ ret'[1].content = JoinText(result')
       /\ (tpc = "loop" /\ pos <= Len(lines) /\ ~StartsWithDiffGit(lines[pos]))
            => NumOmitNotices(result') = NumOmitNotices(result)
       /\ tpc = "returned" => result' = result]_vars

C20_Witness ==
    /\ EndReached
    /\ NumOmitNotices(result) >= 2
    /\ result[Len(result)] = OmitNotice(4)
    /\ \E j \in 1..Len(result) : result[j] = OmitNotice(1) /\ StartsWithDiffGit(result[j + 1])

(***************************************************************************)
(* Properties of filterBinaryFiles                                         *)
(***************************************************************************)
\* the line at position j of a text lies in a binary block: after a
\* `Binary files` line, with no `diff --git` line in between or at j
InBinaryBlock(text, j) ==
    \E b \in 1..(j - 1) :
        /\ StartsWithBinary(text[b])
        /\ \A q \in (b + 1)..j : ~StartsWithDiffGit(text[q])

\* the positions of the lines that are to be kept
KeptPositions(text) ==
    {j \in 1..Len(text) :
        StartsWithBinary(text[j]) \/ StartsWithDiffGit(text[j]) \/ ~InBinaryBlock(text, j)}

\* C21: filterBinaryFiles keeps every line that begins with `Binary files`
\* and every line that begins with `diff --git`, drops exactly the other
\* lines between a `Binary files` line and the next `diff --git` line (or the
\* end), and keeps the remaining lines, all in input order; a text with no
\* line beginning with `Binary files` is returned unchanged.
C21_FilterKeepsAndDrops ==
    fpc \in {"once", "twice"} =>
        LET K == KeptPositions(fIn)
            out == fOnce[1]
        IN /\ Len(out) = Cardinality(K)
           /\ \A j \in K : out[Cardinality({q \in K : q <= j})] = fIn[j]
           /\ (\A j \in 1..Len(fIn) : ~StartsWithBinary(fIn[j])) => out = fIn

C21_Witness ==
    /\ fpc = "once"
    /\ Len(fIn) = 4
    /\ StartsWithBinary(fIn[1])
    /\ ~StartsWithDiffGit(fIn[2]) /\ ~StartsWithBinary(fIn[2])
    /\ StartsWithDiffGit(fIn[3])
    /\ ~StartsWithDiffGit(fIn[4]) /\ ~StartsWithBinary(fIn[4])
    /\ fOnce[1] = <<fIn[1], fIn[3], fIn[4]>>

(***************************************************************************)
(* Further properties of getCommitDiffs                                    *)
(***************************************************************************)
\* the diff fetched for the j-th id, if the fetch answered
FetchedFor(j) == envlog[j].show # <<>> /\ envlog[j].show[1].ok
RawDiff(j) == FetchTexts[envlog[j].show[1].out]

HasMarkerLine(text) == \E q \in 1..Len(text) : StartsWithBinary(text[q])

\* C22: binaryFiltered counts exactly the revisions whose raw diff has a line
\* beginning with `Binary files`; a revision whose diff has no such line is
\* never counted.
C22_BinaryCounted ==
    (Collecting \/ Done) =>
        binaryFilesFiltered =
            Cardinality({j \in 1..Len(diffs) : FetchedFor(j) /\ HasMarkerLine(RawDiff(j))})

\* C23: getCommitDiffs processes the revisions one at a time in input order:
\* at most one external command is outstanding at any moment, it is a
\* command for the id being processed, and the loop moves to the next id,
\* one position further, only with nothing outstanding and the outcome of
\* the current id appended.
C23_Sequential ==
    [][/\ pending' # <<>> =>
            /\ Len(pending') = 1
            /\ pending'[1].arg = commitHashes[i']
            /\ Len(diffs') = i' - 1
       /\ i' # i =>
            /\ i' = i + 1
            /\ Len(diffs') = i
            /\ pending' = <<>>
       /\ \A j \in 1..Len(diffs) : j <= Len(diffs') /\ diffs'[j] = diffs[j]]_vars

C23_Witness ==
    /\ cpc = "show" /\ i = 2
    /\ pending # <<>>
    /\ envlog[1].show # <<>>
    /\ Len(diffs) = 1
    /\ Len(commitHashes) = 2

(***************************************************************************)
(* Further properties of truncateDiff                                      *)
(***************************************************************************)
\* C24: for every diff text and every maxSize, the text truncateDiff returns
\* is never longer than the input text.
C24_NeverGrows ==
    Returned => TextLen(Ret.content) <= TextLen(diffContent)

IsOmitNotice(e) == e.k = "omit"
IsBodyLine(e) == ~IsStructural(e) /\ ~IsNotice(e)

RECURSIVE SumOmitted(_)
\* the sum of the numbers N printed by a sequence of per-file notices
SumOmitted(ns) == IF ns = <<>> THEN 0 ELSE Head(ns).t + SumOmitted(Tail(ns))

\* C25: when truncateDiff reaches the end of the input without a global
\* cutoff, the number of body lines of the input is the number of emitted
\* body lines plus the sum of the N of all "... (N more lines omitted)"
\* notices, also for the body lines that precede the first `diff --git` line.
C25_BodyLinesAccounted ==
    EndReached =>
        Len(BodyLines(lines)) =
            Len(SelectSeq(result, IsBodyLine)) + SumOmitted(SelectSeq(result, IsOmitNotice))

IsParentLookup(c) == c.cmd = "git rev-list --parents -n 1"
IsDiffFetch(c) == c.cmd \in {"git show --format=", "git show --format= --no-color"}
\* a command is handed to the shell in this step
Issued == pending' # <<>> /\ pending' # pending

\* C26: for each id getCommitDiffs issues its commands in a fixed order: none
\* for an invalid id; for a valid id the parent lookup first and once; the
\* diff fetch once, only after the parent lookup has completed and never
\* for a merge that is excluded, so the outcome of an excluded merge never
\* carries an error of a failed diff fetch.
C26_CommandOrder ==
    [][/\ Issued =>
            /\ i' = i /\ IsValidCommitHash(commitHashes[i])
            /\ pending = <<>>
            /\ pending'[1].arg = commitHashes[i]
            /\ Len(diffs) = i - 1
            /\ IsParentLookup(pending'[1]) \/ IsDiffFetch(pending'[1])
            /\ IsParentLookup(pending'[1]) => Len(envlog) = i - 1
            /\ IsDiffFetch(pending'[1]) =>
                  /\ Len(envlog) = i
                  /\ envlog[i].parents # <<>>
                  /\ envlog[i].show = <<>>
                  /\ ~(AnsweredMerge(envlog[i]) /\ ~includeMergeDiffs)
       /\ \A j \in 1..Len(diffs') :
            /\ ~IsValidCommitHash(commitHashes[j]) => envlog'[j] = NoAnswer
            /\ (AnsweredMerge(envlog'[j]) /\ ~includeMergeDiffs) =>
                  /\ envlog'[j].show = <<>>
                  /\ diffs'[j].content = MergePlaceholder
                  /\ ~IsErrorOutcome(diffs'[j])]_vars

C26_Witness ==
    /\ Done /\ Len(diffs) = 2 /\ ~includeMergeDiffs
    /\ AnsweredMerge(envlog[1]) /\ diffs[1].content = MergePlaceholder
    /\ envlog[2].parents # <<>> /\ envlog[2].show # <<>> /\ ~envlog[2].show[1].ok
    /\ IsErrorOutcome(diffs[2])

\* C27 as stated: for every index j of the input list, the hash field of the
\* j-th outcome returned by getCommitDiffs is the j-th input id, also for an
\* id rejected as invalid.
C27_Original ==
    Done => \A j \in 1..Len(commitHashes) :
                j <= Len(diffs) /\ diffs[j].hash = commitHashes[j]

\* C27 amended: the hash field of the j-th outcome is the j-th input id when
\* that id is not empty, also for an id rejected as invalid; for an empty or
\* null id it is the label '[empty]'.
C27_Amended ==
    Done => \A j \in 1..Len(commitHashes) :
                /\ j <= Len(diffs)
                /\ commitHashes[j].chars # <<>> => diffs[j].hash = commitHashes[j]
                /\ commitHashes[j].chars = <<>> => diffs[j].hash = EmptyLabel

C27_Witness ==
    /\ Done /\ Len(diffs) = 2
    /\ commitHashes[1] = EmptyId /\ diffs[1].hash = EmptyLabel
    /\ commitHashes[2] = WordId /\ diffs[2].hash = WordId
    /\ IsErrorOutcome(diffs[2])

(***************************************************************************)
(* Properties of getCommitHistory                                         *)
(***************************************************************************)
\* main holds the result of a call getCommitHistory(count, {readDiffs: true})
HistoryRead == upc \in {"fetched", "refetched"} /\ readOptions[1].readDiffs

\* C28: whenever getCommitHistory is called with readDiffs = true, the
\* messages and the hashes it returns have the same length and messages[j]
\* is the subject of the commit hashes[j], for every history, also one with
\* a commit whose subject line is empty.
C28_MessagesPairedWithHashes ==
    HistoryRead =>
        /\ Len(commitMessages) = Len(cliHashes)
        /\ \A j \in 1..Len(cliHashes) :
              /\ cliHashes[j] = history[j].hash
              /\ commitMessages[j] = history[j].subject

(***************************************************************************)
(* Properties of the PR description of main                                *)
(***************************************************************************)
Described == dpc = "described"
IsEmptyText(text) == text = <<>>

\* C29: in main, whenever a template is selected and AI generation yields no
\* content (GEMINI_API_KEY is not set, or the generation call fails), the PR
\* description is the categorized-commit description, and so it is not
\* empty whenever there is at least one commit message.
C29_FallbackWhenNoAiContent ==
    (Described /\ Truthy(templateContent) /\ aiOutcome \in {"no-key", "failed"}) =>
        /\ prDescription[1] = GeneratePRDescription(CategorizeCommits(descMessages),
                                                    templateContent)
        /\ Len(descMessages) > 0 => ~IsEmptyText(prDescription[1])

(***************************************************************************)
(* Properties of createGitHubPRWithCLI                                     *)
(***************************************************************************)
GhReturned == gpc = "returned"

\* C30: on every exit path of createGitHubPRWithCLI after PR_BODY.md has
\* been written (edit succeeds, edit fails, create succeeds, create fails)
\* the file has been removed when the function returns; runs in which a
\* removal itself was rejected by the file system are left aside.
C30_TempFileRemoved ==
    (GhReturned /\ tempWritten /\ ~unlinkFailed) => prBodyFile = <<>>

====
